---- MODULE Spec2Model ----
(***************************************************************************)
(* A model of the storage engine of bertrandchenal/jensen: the pod, the    *)
(* changelog, Series.write, Collection.pull, Repo.gc, the commit overlay   *)
(* update, the read planner and Batch.flush.                               *)
(***************************************************************************)
EXTENDS Integers, Sequences, FiniteSets, TLC

(***************************************************************************)
(* Bounds of the model.                                                    *)
(***************************************************************************)
\* number of columns of the schema: blobs saved by one Series.write
NumCols == 2
\* number of concurrent writers
NumWriters == 1
\* the clock (hextime) runs from 1 to MaxTime
MaxTime == 4
\* settings.timeout, counted in clock ticks
Timeout == 2
\* number of actors that call Changelog.commit at the same time
NumActors == 2
\* number of revision files the local changelog holds before a write is
\* no longer started (pull specification)
MaxRevs == 2
\* the index values of the rows run from 1 to MaxIdx
MaxIdx == 2
\* number of calls of Commit.update in a row
MaxUpdates == 3
\* number of updates one batch buffers
MaxBuffer == 2
\* number of batches opened
MaxFlushes == 2
\* number of revision files of a changelog that forks and merges
MaxCommits == 4
\* number of threads that use one Collection object
NumThreads == 2

\* the threads that share one Collection object; the first one made it
Threads == 1..NumThreads
Creator == 1
\* the outcome of a write that was not made
NoWrite == [outcome |-> "none", own |-> FALSE, others |-> FALSE]

\* no operation of the collection was called yet
NoOp == [name |-> "none", labels |-> {}]
NoSync == [stage |-> "none", side |-> 0, labels |-> {}]

\* the content digests of the column blobs
Digests == {1, 2}
Columns == 1..NumCols
Writers == 1..NumWriters
Actors == 1..NumActors

Range(s) == {s[i] : i \in 1..Len(s)}

(***************************************************************************)
(* Pod.  A blob file of the repository pod is <<digest, ext>>: ext = 0 is  *)
(* the plain hashed path, ext > 0 is the path with a ".hextime" suffix.    *)
(* Blobs are content-addressed, so the name determines the bytes.          *)
(***************************************************************************)
Plain == 0

\* MemPOD.write / FilePOD.write: no-op when the key exists
PodWrite(fs, f) == IF f \in fs THEN fs ELSE fs \cup {f}

\* POD.rm(path, missing_ok=True)
PodRm(fs, f) == fs \ {f}

\* POD.mv(old, new, missing_ok=True)
PodMv(fs, old, new) == IF old \in fs THEN (fs \ {old}) \cup {new} ELSE fs

\* hextime(t): sortable stamp of a time; ordered as the time is
hextime(t) == t

(***************************************************************************)
(* Changelog (baltic/changelog.py).  The changelog pod is the sequence of  *)
(* its revision files in listing order; a revision file "parent.child" is  *)
(* the record [parent, child] and the child key is the sha1 of the items,  *)
(* modelled injectively by the items themselves.                           *)
(***************************************************************************)
phi == [columns |-> <<>>, timestamp |-> 0]

\* key = sha1(arr).hexdigest()
sha1(items) == items

Rev(parent, items) == [parent |-> parent, child |-> sha1(items)]

\* Changelog.log: parent -> [child], skipping files with parent = child
RECURSIVE ChildrenOf(_, _)
ChildrenOf(c, parent) ==
    IF c = <<>> THEN <<>>
    ELSE LET r == Head(c)
             rest == ChildrenOf(Tail(c), parent)
         IN IF r.parent = parent /\ r.parent # r.child
            THEN <<r.child>> \o rest
            ELSE rest

log(c) == [p \in {r.parent : r \in Range(c)} |-> ChildrenOf(c, p)]

\* Changelog._walk: depth-first traversal, children in listing order.  The
\* depth is cut at the number of files so that a cyclic log keeps the
\* operator total.
RECURSIVE WalkFrom(_, _, _), WalkEach(_, _, _, _)
WalkFrom(c, parent, depth) ==
    IF depth = 0 THEN <<>>
    ELSE WalkEach(c, parent, ChildrenOf(c, parent), depth)
WalkEach(c, parent, kids, depth) ==
    IF kids = <<>> THEN <<>>
    ELSE <<[parent |-> parent, child |-> Head(kids)]>>
         \o WalkFrom(c, Head(kids), depth - 1)
         \o WalkEach(c, parent, Tail(kids), depth)

\* Changelog.walk
walk(c) == WalkFrom(c, phi, Len(c))

\* Changelog.leaf followed by the split of commit(): the parent key a
\* commit without explicit parent uses
LeafParent(c) ==
    LET w == walk(c)
    IN IF w = <<>> THEN phi ELSE w[Len(w)].child

\* pod.write(filename, data) on the changelog pod
ChlWrite(c, r) == IF r \in Range(c) THEN c ELSE Append(c, r)

\* Collection.digests: the digests of every revision of the log
digests(c) == UNION {Range(r.child.columns) : r \in Range(walk(c))}

(***************************************************************************)
(* State.                                                                  *)
(***************************************************************************)
VARIABLES
    now,            \* the clock read by time() and hextime()
    files,          \* blob files of the repository pod
    chl,            \* revision files of the collection's changelog pod
    wpc,            \* Series.write: position of each writer
    wseg,           \* Series.write: column digests of the segment to write
    col_digests,    \* Series.write: digests saved so far by sgm.save
    winfo,          \* Series.write: the content to commit
    wparent,        \* Changelog.commit: the parent found
    gpc,            \* Repo.gc: position of the pass
    all_dig,        \* Repo.gc: the files listed
    active_digests, \* Repo.gc: the digests found in the changelogs
    current_ts_ext, \* Repo.gc: suffix of this pass
    deadline,       \* Repo.gc: hextime(time() - settings.timeout)
    inactive,       \* Repo.gc: files still to sweep
    rfiles,         \* Collection.pull: blob files of the remote pod
    rchl,           \* Collection.pull: revision files of the remote changelog
    ppc,            \* Collection.pull: position of the pull
    pool,           \* Collection.pull: blobs submitted to the pool, not yet copied
    local_revs,     \* Changelog.pull: the local revisions listed
    pull_pos,       \* Changelog.pull: position in the remote listing
    apc,            \* Changelog.commit: position of each direct caller
    aitems,         \* Changelog.commit: the items of each caller
    aparent,        \* Changelog.commit: the parent each caller found
    aret,           \* Changelog.commit: the filename returned to each caller
    ci_self,        \* Commit.update: the commit the call is made on
    ci_args,        \* Commit.update: the row given to the call
    ci_res,         \* Commit.update: the commit returned
    ci_count,       \* Commit.update: number of calls made
    rd_start,       \* Series.read: the start given
    rd_end,         \* Series.read: the end given
    rd_frame,       \* Series.read: the rows returned
    rd_done,        \* Series.read: a read has returned
    lchl,           \* Batch: revision files of the collection's changelog
    bpc,            \* Collection.multi: position of the batch
    ci_info,        \* Batch: the buffered updates (_ci_info)
    root,           \* Batch: the root flag
    revs,           \* Batch: the revisions returned by changelog.commit
    calls,          \* Batch: the parents of each call of changelog.commit
    flushes,        \* Batch: number of batches flushed
    tbatch,         \* Collection._local.batch of each thread
    tinfo,          \* Batch: the updates buffered by the batch of each thread
    tres,           \* Series.write: how the last write of each thread ended
    op,             \* Collection: the last operation called and its arguments
    wleaf,          \* Series.write: the leaf each writer loaded
    wloaded,        \* Series.write: the writer has loaded the leaf
    mrevs,          \* Collection.merge: the revisions returned
    rlchl,          \* the revision files of the collection of the other repo
    sync,           \* the deletion that is being propagated
    reg,            \* the revision files of the registry of each repo
    rret,           \* Repo.create_collection, Repo.pull: how the call ended
    store,          \* MemPOD.store, FilePOD: the bytes held by each key of each pod
    wret,           \* POD.write, Changelog.commit: what the last call returned
    bchl,           \* the revision files of the collection "b" of each repo
    rd_pc,          \* Series.read: position of the read in progress
    rd_revs,        \* Series.read: the revisions listed by the log of the changelog
    rd_info,        \* Series.read: the contents read so far
    rd_snap,        \* the changelog pod as it was when the read listed it
    ci_error,       \* Commit.update: the error the last call raised
    rd_limit,       \* Series.read: the limit of the last read
    tbody,          \* for each thread, whether it is inside the body of a with multi() block
    sqpc,           \* the position of the squash that is running
    sq_revs,        \* the revisions squash listed: its local revs
    sq_before,      \* the revision files that were there when squash listed
    sq_batch,       \* the revisions of the batch of squash: batch.revs
    pkpc,           \* the position of the pack that is running
    pk_revs,        \* the revisions pack listed: its local revisions
    pk_todo,        \* the listed revisions pack has still to remove
    pk_files        \* the revision files that were there when pack listed

podvars == <<now, files, chl>>
gcvars == <<gpc, all_dig, active_digests, current_ts_ext, deadline, inactive>>
wvars == <<wpc, wseg, col_digests, winfo, wparent>>
pullvars == <<rfiles, rchl, ppc, pool, local_revs, pull_pos>>
forkvars == <<apc, aitems, aparent, aret>>
civars == <<ci_self, ci_args, ci_res, ci_count>>
readvars == <<rd_start, rd_end, rd_frame, rd_done>>
batchvars == <<lchl, bpc, ci_info, root, revs, calls, flushes>>
threadvars == <<tbatch, tinfo, tres>>
clctvars == <<op>>
mergevars == <<wleaf, wloaded, mrevs>>
syncvars == <<rlchl, sync>>
repovars == <<reg, rret>>
storevars == <<store, wret>>
delvars == <<bchl>>
snapvars == <<rd_pc, rd_revs, rd_info, rd_snap>>
errvars == <<ci_error>>
limvars == <<rd_limit>>
bodyvars == <<tbody>>
sqvars == <<sqpc, sq_revs, sq_before, sq_batch>>
pkvars == <<pkpc, pk_revs, pk_todo, pk_files>>
extvars == <<threadvars, clctvars, mergevars, syncvars, repovars, storevars, delvars, snapvars, errvars, limvars, bodyvars, sqvars, pkvars>>
vars == <<podvars, wvars, gcvars, pullvars, forkvars, civars, readvars,
          batchvars, extvars>>

\* what the actions of one component leave alone
NotWriter == <<gcvars, pullvars, forkvars, civars, readvars, batchvars, extvars>>
NotGc == <<wvars, pullvars, forkvars, civars, readvars, batchvars, extvars>>
NotPull == <<wvars, gcvars, forkvars, civars, readvars, batchvars, extvars>>
NotFork == <<wvars, gcvars, pullvars, civars, readvars, batchvars, extvars>>
NotCommit == <<podvars, wvars, gcvars, pullvars, forkvars, readvars,
               batchvars, extvars>>
NotRead == <<wvars, gcvars, pullvars, forkvars, civars, batchvars, extvars>>
NotBatch == <<files, chl, wvars, gcvars, pullvars, forkvars, civars,
              readvars, extvars>>

\* the column digests of a segment, for a schema of one column and for the
\* schema of NumCols columns
Segments1 == [{1} -> Digests]
Segments == [Columns -> Digests]

InitWriters ==
    /\ wpc = [w \in Writers |-> "idle"]
    /\ wseg = [w \in Writers |-> <<>>]
    /\ col_digests = [w \in Writers |-> <<>>]
    /\ winfo = [w \in Writers |-> phi]
    /\ wparent = [w \in Writers |-> phi]

InitGc ==
    /\ gpc = "idle"
    /\ all_dig = {}
    /\ active_digests = {}
    /\ current_ts_ext = 0
    /\ deadline = 0
    /\ inactive = {}

NoRev == [parent |-> phi, child |-> phi]

InitPull ==
    /\ rfiles = {}
    /\ rchl = <<>>
    /\ ppc = "idle"
    /\ pool = {}
    /\ local_revs = {}
    /\ pull_pos = 0

InitFork ==
    /\ apc = [a \in Actors |-> "idle"]
    /\ aitems = [a \in Actors |-> phi]
    /\ aparent = [a \in Actors |-> phi]
    /\ aret = [a \in Actors |-> NoRev]

\* the digest of a payload, and the zero hash
hash(payload) == <<payload>>
zero_hash == <<>>

\* closed_codec = Codec("str"): the tags are written as strings, and a tag
\* that is None is written as the missing string, which is the empty string
closed_codec_encode(arr) ==
    [i \in 1..Len(arr) |-> IF arr[i] = "None" THEN "" ELSE arr[i]]

\* closed_codec.decode: the strings that were written
closed_codec_decode(data) == data

\* Commit.encode: the map of the columns of the rows
encode(ci) ==
    [start |-> [i \in 1..Len(ci) |-> ci[i].start],
     stop |-> [i \in 1..Len(ci) |-> ci[i].stop],
     digest |-> [i \in 1..Len(ci) |-> ci[i].digest],
     length |-> [i \in 1..Len(ci) |-> ci[i].length],
     closed |-> closed_codec_encode([i \in 1..Len(ci) |-> ci[i].closed]),
     label |-> [i \in 1..Len(ci) |-> ci[i].label]]

\* Commit.decode: the rows of the map of the columns
decode(payload) ==
    [i \in 1..Len(payload.label) |->
        [label |-> payload.label[i], start |-> payload.start[i],
         stop |-> payload.stop[i], digest |-> payload.digest[i],
         length |-> payload.length[i],
         closed |-> closed_codec_decode(payload.closed)[i]]]

\* the revisions of S in ascending order of hextime
RECURSIVE ByTime(_)
ByTime(S) ==
    IF S = {} THEN <<>>
    ELSE LET r == CHOOSE x \in S : \A y \in S : x.time <= y.time
         IN  <<r>> \o ByTime({y \in S : y.time > r.time})

\* Changelog.log: the revision files sorted depth-first from the zero
\* hash, the children of one parent by ascending hextime; a sort lists each
\* file once, so a revision met again is passed over
RECURSIVE LogWalk(_, _, _)
LogWalk(c, stack, out) ==
    IF stack = <<>> THEN out
    ELSE LET rev == stack[Len(stack)]
             rest == SubSeq(stack, 1, Len(stack) - 1)
             children == ByTime({r \in c : r.parent = rev.child})
         IN  IF rev \in Range(out) THEN LogWalk(c, rest, out)
             ELSE LogWalk(c,
                          rest \o [i \in 1..Len(children) |->
                                      children[Len(children) + 1 - i]],
                          Append(out, rev))

LogRoots(c) == ByTime({r \in c : r.parent = zero_hash})

Log(c) == LogWalk(c, [i \in 1..Len(LogRoots(c)) |->
                         LogRoots(c)[Len(LogRoots(c)) + 1 - i]], <<>>)

\* the value of leaf() when the changelog has no revision
NoLeaf == [parent |-> zero_hash, child |-> zero_hash, time |-> 0,
           payload |-> encode(<<>>)]

\* Changelog.leaf: the last revision of log()
leaf(c) == IF Log(c) = <<>> THEN NoLeaf ELSE Log(c)[Len(Log(c))]

\* Changelog.commit(payload, parents): one revision file for each parent
ChangelogCommit(payload, parents, t) ==
    [i \in 1..Len(parents) |->
        [parent |-> parents[i], child |-> hash(payload), time |-> hextime(t),
         payload |-> payload]]

\* the row of a call that was not made
NoRow == [label |-> 0, start |-> 0, stop |-> 0, digest |-> 0, length |-> 0,
          closed |-> "both"]

InitCommit ==
    /\ ci_self = <<>>
    /\ ci_args = NoRow
    /\ ci_res = <<>>
    /\ ci_count = 0

InitRead ==
    /\ rd_start = <<>>
    /\ rd_end = <<>>
    /\ rd_frame = <<>>
    /\ rd_done = FALSE

InitBatch ==
    /\ lchl = {}
    /\ bpc = "none"
    /\ ci_info = <<>>
    /\ root = FALSE
    /\ revs = <<>>
    /\ calls = <<>>
    /\ flushes = 0

InitThreads ==
    /\ tbatch = [t \in Threads |-> IF t = Creator THEN "None" ELSE "unset"]
    /\ tinfo = [t \in Threads |-> <<>>]
    /\ tres = [t \in Threads |-> NoWrite]

InitClct ==
    /\ op = NoOp

InitMerge ==
    /\ wleaf = [a \in Actors |-> NoLeaf]
    /\ wloaded = [a \in Actors |-> FALSE]
    /\ mrevs = <<>>

InitSync ==
    /\ rlchl = {}
    /\ sync = NoSync

InitRepo ==
    /\ reg = [s \in {1, 2} |-> {}]
    /\ rret = "none"

InitStore ==
    /\ store = [p \in {"mem", "file"} |-> <<>>]
    /\ wret = "none"

InitRepoDelete ==
    /\ bchl = [s \in {1, 2} |-> {}]

InitSnap ==
    /\ rd_pc = "idle"
    /\ rd_revs = <<>>
    /\ rd_info = <<>>
    /\ rd_snap = <<>>

InitErr ==
    /\ ci_error = "none"

\* limit=None, the default of Series.read
NoLimit == -1

InitLim ==
    /\ rd_limit = NoLimit

InitBody ==
    /\ tbody = [t \in Threads |-> "out"]

InitSq ==
    /\ sqpc = "idle"
    /\ sq_revs = <<>>
    /\ sq_before = {}
    /\ sq_batch = <<>>

InitPk ==
    /\ pkpc = "idle"
    /\ pk_revs = <<>>
    /\ pk_todo = <<>>
    /\ pk_files = {}

InitExt ==
    /\ InitThreads
    /\ InitClct
    /\ InitMerge
    /\ InitSync
    /\ InitRepo
    /\ InitStore
    /\ InitRepoDelete
    /\ InitSnap
    /\ InitErr
    /\ InitLim
    /\ InitBody
    /\ InitSq
    /\ InitPk

InitPod ==
    /\ now = 1
    /\ files = {}
    /\ chl = <<>>

Init ==
    /\ InitPod
    /\ InitWriters
    /\ InitGc
    /\ InitPull
    /\ InitFork
    /\ InitCommit
    /\ InitRead
    /\ InitBatch
    /\ InitExt

(***************************************************************************)
(* Series.write (baltic/series.py): sgm.save writes the column blobs, then *)
(* the info is built and committed on the leaf.                            *)
(***************************************************************************)
WriteBegin(w, sgm) ==
    /\ wpc[w] = "idle"
    /\ wpc' = [wpc EXCEPT ![w] = "save"]
    /\ wseg' = [wseg EXCEPT ![w] = sgm]
    /\ col_digests' = [col_digests EXCEPT ![w] = <<>>]
    /\ UNCHANGED <<now, files, chl, winfo, wparent, NotWriter>>

\* one column of sgm.save: the blob goes to its hashed path
SaveColumn(w) ==
    /\ wpc[w] = "save"
    /\ LET i == Len(col_digests[w]) + 1
           d == wseg[w][i]
       IN /\ files' = PodWrite(files, <<d, Plain>>)
          /\ col_digests' = [col_digests EXCEPT ![w] = Append(@, d)]
          /\ wpc' = [wpc EXCEPT ![w] = IF i = Len(wseg[w]) THEN "info" ELSE "save"]
    /\ UNCHANGED <<now, chl, wseg, winfo, wparent, NotWriter>>

\* info = {..., "timestamp": time.time(), "columns": col_digests}, then
\* Changelog.commit finds the parent
CommitFindParent(w) ==
    /\ wpc[w] = "info"
    /\ now < MaxTime
    /\ winfo' = [winfo EXCEPT ![w] =
                    [columns |-> col_digests[w], timestamp |-> now]]
    /\ wparent' = [wparent EXCEPT ![w] = LeafParent(chl)]
    /\ now' = now + 1
    /\ wpc' = [wpc EXCEPT ![w] = "write"]
    /\ UNCHANGED <<files, chl, wseg, col_digests, NotWriter>>

\* Changelog.commit writes the file parent.key
CommitWrite(w) ==
    /\ wpc[w] = "write"
    /\ chl' = ChlWrite(chl, Rev(wparent[w], winfo[w]))
    /\ wpc' = [wpc EXCEPT ![w] = "idle"]
    /\ wseg' = [wseg EXCEPT ![w] = <<>>]
    /\ col_digests' = [col_digests EXCEPT ![w] = <<>>]
    /\ winfo' = [winfo EXCEPT ![w] = phi]
    /\ wparent' = [wparent EXCEPT ![w] = phi]
    /\ UNCHANGED <<now, files, NotWriter>>

\* Repo.delete: the changelog folder of the collection is removed
Delete ==
    /\ chl # <<>>
    /\ chl' = <<>>
    /\ UNCHANGED <<now, files, wvars, NotWriter>>

\* time passes
Tick ==
    /\ now < MaxTime
    /\ now' = now + 1
    /\ UNCHANGED <<files, chl, wvars, NotWriter>>

(***************************************************************************)
(* Repo.gc: list the files, list the active digests, sweep.                *)
(***************************************************************************)
GcList ==
    /\ gpc = "idle"
    /\ gpc' = "listed"
    /\ all_dig' = files
    /\ UNCHANGED <<now, files, chl, NotGc, active_digests, current_ts_ext,
                   deadline, inactive>>

\* a listed file is "active" when its name is an active digest: a suffixed
\* name never is
IsActiveName(f, active) == f[2] = Plain /\ f[1] \in active

\* each pass draws its own hextime: the clock moves on
GcMark ==
    /\ gpc = "listed"
    /\ now < MaxTime
    /\ LET active == digests(chl)
       IN /\ active_digests' = active
          /\ inactive' = {f \in all_dig : ~IsActiveName(f, active)}
    /\ current_ts_ext' = hextime(now)
    /\ deadline' = hextime(now - Timeout)
    /\ now' = now + 1
    /\ gpc' = "sweep"
    /\ UNCHANGED <<files, chl, NotGc, all_dig>>

\* every suffix taken as too recent
TooRecentAlways(ext, dl) == TRUE

\* the comparison turned round
TooRecentFlipped(ext, dl) == ext < dl

\* ext > deadline: the suffix is too recent to act on
TooRecent(ext, dl) == ext > dl

\* the sweep without the look-up in the active digests
SweepFileNoActiveCheck(fs, f, active, ext, dl) ==
    IF f[2] = Plain
    THEN PodMv(fs, f, <<f[1], ext>>)
    ELSE IF TooRecent(f[2], dl)
         THEN fs
         ELSE PodRm(fs, f)

\* the sweep that leaves a soft-deleted file of an active digest as it is
SweepFileNoRestore(fs, f, active, ext, dl) ==
    IF f[2] = Plain
    THEN PodMv(fs, f, <<f[1], ext>>)
    ELSE IF TooRecent(f[2], dl)
         THEN fs
         ELSE IF f[1] \in active
              THEN fs
              ELSE PodRm(fs, f)

\* one turn of the loop over the inactive files
SweepFile(fs, f, active, ext, dl) ==
    IF f[2] = Plain
    THEN PodMv(fs, f, <<f[1], ext>>)
    ELSE IF TooRecent(f[2], dl)
         THEN fs
         ELSE IF f[1] \in active
              THEN PodMv(fs, f, <<f[1], Plain>>)
              ELSE PodRm(fs, f)

GcSweep(f) ==
    /\ gpc = "sweep"
    /\ f \in inactive
    /\ files' = SweepFile(files, f, active_digests, current_ts_ext, deadline)
    /\ inactive' = inactive \ {f}
    /\ UNCHANGED <<now, chl, NotGc, gpc, all_dig, active_digests,
                   current_ts_ext, deadline>>

GcSweepAny == \E f \in inactive : GcSweep(f)

GcEnd ==
    /\ gpc = "sweep"
    /\ inactive = {}
    /\ gpc' = "idle"
    /\ all_dig' = {}
    /\ active_digests' = {}
    /\ current_ts_ext' = 0
    /\ deadline' = 0
    /\ UNCHANGED <<now, files, chl, NotGc, inactive>>

NextGC ==
    \/ \E w \in Writers, sgm \in Segments1 : WriteBegin(w, sgm)
    \/ \E w \in Writers : SaveColumn(w)
    \/ \E w \in Writers : CommitFindParent(w)
    \/ \E w \in Writers : CommitWrite(w)
    \/ Delete
    \/ Tick
    \/ GcList
    \/ GcMark
    \/ GcSweepAny
    \/ GcEnd

\* writers, Repo.delete and gc passes interleaved
SpecGC == Init /\ [][NextGC]_vars

(***************************************************************************)
(* Collection.pull: the blobs of the remote digests that no local revision *)
(* references are copied by the pool, then Changelog.pull copies the       *)
(* remote revision files the local changelog does not list.                *)
(***************************************************************************)
Payload(sgm, t) == [columns |-> sgm, timestamp |-> t]

\* the blobs a changelog written by Series.write comes with
BlobsOf(c) == {<<d, Plain>> : d \in UNION {Range(r.child.columns) : r \in Range(c)}}

\* the remote collections pulled from: no, one or two revisions in a chain
Mixed == [c \in Columns |-> IF c = 1 THEN 1 ELSE 2]
Same(d) == [c \in Columns |-> d]
RemoteLogs ==
    { <<>>,
      <<Rev(phi, Payload(Mixed, 1))>>,
      <<Rev(phi, Payload(Same(1), 1)),
        Rev(Payload(Same(1), 1), Payload(Mixed, 2))>> }

InitPublish ==
    /\ InitPod
    /\ InitWriters
    /\ InitGc
    /\ InitFork
    /\ InitCommit
    /\ InitRead
    /\ InitBatch
    /\ InitExt
    /\ rchl \in RemoteLogs
    /\ rfiles = BlobsOf(rchl)
    /\ ppc = "idle"
    /\ pool = {}
    /\ local_revs = {}
    /\ pull_pos = 0

\* the test "dig in local_digs" inverted: the blobs already local are
\* submitted, the missing ones are skipped
PullBeginInverted ==
    /\ ppc = "idle"
    /\ LET local_digs == digests(chl)
           remote_digs == digests(rchl)
       IN pool' = remote_digs \cap local_digs
    /\ ppc' = "blobs"
    /\ UNCHANGED <<podvars, rfiles, rchl, local_revs, pull_pos, NotPull>>

\* local_digs, remote_digs and the submission of the missing blobs
PullBegin ==
    /\ ppc = "idle"
    /\ LET local_digs == digests(chl)
           remote_digs == digests(rchl)
       IN pool' = remote_digs \ local_digs
    /\ ppc' = "blobs"
    /\ UNCHANGED <<podvars, rfiles, rchl, local_revs, pull_pos, NotPull>>

\* sync(path): self.pod.write(path, remote.pod.read(path))
PullBlob(d) ==
    /\ ppc = "blobs"
    /\ d \in pool
    /\ <<d, Plain>> \in rfiles
    /\ files' = PodWrite(files, <<d, Plain>>)
    /\ pool' = pool \ {d}
    /\ UNCHANGED <<now, chl, rfiles, rchl, ppc, local_revs, pull_pos, NotPull>>

PullBlobAny == \E d \in pool : PullBlob(d)

\* the "with Pool()" block is left when every task is done
PoolJoined(p) == p = {}

\* Changelog.pull: local_revs = list(self)
PullJoin ==
    /\ ppc = "blobs"
    /\ PoolJoined(pool)
    /\ local_revs' = Range(chl)
    /\ pull_pos' = 1
    /\ ppc' = "revs"
    /\ UNCHANGED <<podvars, rfiles, rchl, pool, NotPull>>

\* one turn of "for rev in remote" with the test "rev in local_revs"
\* inverted
PullRevInverted ==
    /\ ppc = "revs"
    /\ pull_pos <= Len(rchl)
    /\ LET rev == rchl[pull_pos]
       IN chl' = IF rev \notin local_revs THEN chl ELSE ChlWrite(chl, rev)
    /\ pull_pos' = pull_pos + 1
    /\ UNCHANGED <<now, files, rfiles, rchl, ppc, pool, local_revs, NotPull>>

\* one turn of "for rev in remote"
PullRev ==
    /\ ppc = "revs"
    /\ pull_pos <= Len(rchl)
    /\ LET rev == rchl[pull_pos]
       IN chl' = IF rev \in local_revs THEN chl ELSE ChlWrite(chl, rev)
    /\ pull_pos' = pull_pos + 1
    /\ UNCHANGED <<now, files, rfiles, rchl, ppc, pool, local_revs, NotPull>>

PullEnd ==
    /\ ppc = "revs"
    /\ pull_pos > Len(rchl)
    /\ ppc' = "idle"
    /\ local_revs' = {}
    /\ pull_pos' = 0
    /\ UNCHANGED <<podvars, rfiles, rchl, pool, NotPull>>

\* the writer that runs beside the pull
LocalWriters == {1}

NextPublish ==
    \/ \E w \in LocalWriters, sgm \in Segments :
          Len(chl) < MaxRevs /\ WriteBegin(w, sgm)
    \/ \E w \in LocalWriters : SaveColumn(w)
    \/ \E w \in LocalWriters : CommitFindParent(w)
    \/ \E w \in LocalWriters : CommitWrite(w)
    \/ PullBegin
    \/ PullBlobAny
    \/ PullJoin
    \/ PullRev
    \/ PullEnd

\* a writer and a pull on one collection, no gc
SpecPublish == InitPublish /\ [][NextPublish]_vars

(***************************************************************************)
(* Changelog.commit called by several actors on one changelog: the parent  *)
(* is found (leaf), then the file parent.key is written.                   *)
(***************************************************************************)
\* the items the actors commit
ForkItems == {Payload(sgm, t) : sgm \in Segments1, t \in 1..2}

InitChangelog ==
    /\ now = 1
    /\ files = {}
    /\ chl \in {<<>>} \cup {<<Rev(phi, items)>> : items \in ForkItems}
    /\ InitWriters
    /\ InitGc
    /\ InitPull
    /\ InitFork
    /\ InitCommit
    /\ InitRead
    /\ InitBatch
    /\ InitExt

\* commit(items): parent = self.leaf()
CommitCall(a, items) ==
    /\ apc[a] = "idle"
    /\ aitems' = [aitems EXCEPT ![a] = items]
    /\ aparent' = [aparent EXCEPT ![a] = LeafParent(chl)]
    /\ apc' = [apc EXCEPT ![a] = "write"]
    /\ UNCHANGED <<podvars, aret, NotFork>>

\* self.pod.write(filename, data); return filename
CommitReturn(a) ==
    /\ apc[a] = "write"
    /\ chl' = ChlWrite(chl, Rev(aparent[a], aitems[a]))
    /\ aret' = [aret EXCEPT ![a] = Rev(aparent[a], aitems[a])]
    /\ apc' = [apc EXCEPT ![a] = "done"]
    /\ UNCHANGED <<now, files, aitems, aparent, NotFork>>

NextChangelog ==
    \/ \E a \in Actors, items \in ForkItems : CommitCall(a, items)
    \/ \E a \in Actors : CommitReturn(a)

\* actors committing on one changelog, each once
SpecChangelog == InitChangelog /\ [][NextChangelog]_vars

(***************************************************************************)
(* Commit (lakota/commit.py): the rows of a commit, in order.  The schema  *)
(* has one index column, so start and stop are tuples of one value and     *)
(* compare as that value.  Positions count from 0 as in the source.        *)
(***************************************************************************)
\* the labels of the series, ordered as the strings are
Labels == {1, 2}
\* the index values
Idx == 1..MaxIdx
\* the closed tags given to update
ClosedArgs == {"both", "left"}

\* the writes of the series: (label, start, stop)
ClctWrites == {w \in Labels \X Idx \X Idx : w[2] <= w[3]}

\* comparison of the tuples (label, index value)
TupleLt(a, b) == a[1] < b[1] \/ (a[1] = b[1] /\ a[2] < b[2])
TupleLe(a, b) == a = b \/ TupleLt(a, b)

\* Commit.one ignoring the closed argument
oneClosedDropped(label, start, stop, digest, length, closed) ==
    << [label |-> label, start |-> start, stop |-> stop, digest |-> digest,
        length |-> length, closed |-> "both"] >>

\* Commit.one: a commit of one row
one(label, start, stop, digest, length, closed) ==
    << [label |-> label, start |-> start, stop |-> stop, digest |-> digest,
        length |-> length, closed |-> closed] >>

\* Commit.at: the row at pos, a negative pos counts from the end
at(c, pos) == IF pos < 0 THEN c[Len(c) + pos + 1] ELSE c[pos + 1]

\* Commit.head, Commit.tail: slice(None, pos) and slice(pos, None), pos >= 0
head(c, pos) == SubSeq(c, 1, IF pos < Len(c) THEN pos ELSE Len(c))
tail(c, pos) == SubSeq(c, pos + 1, Len(c))

\* Commit.concat
concat(a, b) == a \o b

\* Frame.index: bisection of the rows a for the value x, between the
\* positions lo and hi; right = FALSE is bisect_left, TRUE is bisect_right
RECURSIVE bisect(_, _, _, _, _)
bisect(a, x, lo, hi, right) ==
    IF lo >= hi THEN lo
    ELSE LET mid == (lo + hi) \div 2
         IN  IF right
             THEN IF TupleLt(x, a[mid + 1])
                  THEN bisect(a, x, lo, mid, right)
                  ELSE bisect(a, x, mid + 1, hi, right)
             ELSE IF TupleLt(a[mid + 1], x)
                  THEN bisect(a, x, mid + 1, hi, right)
                  ELSE bisect(a, x, lo, mid, right)

index(a, x, right) == bisect(a, x, 0, Len(a), right)

\* Commit.split: start_pos in the frame of (label, stop), stop_pos in the
\* frame of (label, start)
split(c, label, start, stop) ==
    LET frm_start == [i \in 1..Len(c) |-> <<c[i].label, c[i].start>>]
        frm_stop == [i \in 1..Len(c) |-> <<c[i].label, c[i].stop>>]
    IN  [start_pos |-> index(frm_stop, <<label, start>>, FALSE),
         stop_pos |-> index(frm_start, <<label, stop>>, TRUE)]

\* the closed tag left as it was
ClosedLeftKept(closed) == closed

\* the closed tag of a row truncated on its right, on its left
ClosedLeft(closed) == IF closed \in {"left", "both"} THEN "left" ELSE "None"
ClosedRight(closed) == IF closed \in {"right", "both"} THEN "right" ELSE "None"

\* Commit.update, lines 121-142: the rows kept before the new row
UpdateHead(c, start, stop, start_pos) ==
    IF start_pos < Len(c)
    THEN LET start_row == at(c, start_pos)
             clipped == [start_row EXCEPT !.stop = start,
                                          !.closed = ClosedLeft(start_row.closed)]
         IN  IF /\ start <= start_row.stop
                /\ start_row.stop <= stop
                /\ clipped.start < clipped.stop
             THEN concat(head(c, start_pos), <<clipped>>)
             ELSE head(c, start_pos)
    ELSE head(c, start_pos)

\* Commit.update, lines 144-164: the rows kept after the new row; stop_pos
\* is already decremented and may be -1
UpdateTail(c, start, stop, stop_pos) ==
    IF stop_pos < Len(c)
    THEN LET stop_row == at(c, stop_pos)
             clipped == [stop_row EXCEPT !.start = stop,
                                         !.closed = ClosedRight(stop_row.closed)]
         IN  IF /\ start <= stop_row.start
                /\ stop_row.start <= stop
                /\ clipped.start < clipped.stop
             THEN concat(tail(c, stop_pos + 1), <<clipped>>)
             ELSE tail(c, stop_pos + 1)
    ELSE tail(c, stop_pos + 1)

\* Commit.update, for start <= stop
update(c, label, start, stop, digest, length, closed) ==
    LET inner == one(label, start, stop, digest, length, closed)
    IN  IF Len(c) = 0 THEN inner
        ELSE LET first == <<at(c, 0).label, at(c, 0).start>>
                 last == <<at(c, -1).label, at(c, -1).stop>>
             IN  IF /\ TupleLe(<<label, start>>, first)
                    /\ TupleLe(last, <<label, stop>>)
                 THEN inner
                 ELSE LET pos == split(c, label, start, stop)
                      IN  concat(concat(UpdateHead(c, start, stop, pos.start_pos),
                                        inner),
                                 UpdateTail(c, start, stop, pos.stop_pos - 1))

\* update called with the fields of the row r
UpdateRow(c, r) ==
    update(c, r.label, r.start, r.stop, r.digest, r.length, r.closed)

\* one call of update on the commit the previous call returned; the digest
\* is new at each call, the length is the number of index values
Update(label, start, stop, closed) ==
    /\ ci_count < MaxUpdates
    /\ start <= stop
    /\ LET r == [label |-> label, start |-> start, stop |-> stop,
                 digest |-> ci_count + 1, length |-> stop - start + 1,
                 closed |-> closed]
       IN  /\ ci_args' = r
           /\ ci_res' = UpdateRow(ci_res, r)
    /\ ci_self' = ci_res
    /\ ci_count' = ci_count + 1
    /\ UNCHANGED NotCommit

NextCommit ==
    \/ \E label \in Labels, start \in Idx, stop \in Idx, closed \in ClosedArgs :
          Update(label, start, stop, closed)

SpecCommit == Init /\ [][NextCommit]_vars

(***************************************************************************)
(* Series.write and Series.read (baltic/series.py) on one series.  A       *)
(* segment is the tuple of its column arrays, the index column first; the  *)
(* digest of a column stands for its array.  Index tuples have one value,  *)
(* the empty tuple is the bound that was not given.                        *)
(***************************************************************************)
\* the segment of the rows start..stop, all with the value v
SgmOf(start, stop, v) ==
    << [i \in 1..(stop - start + 1) |-> start + i - 1],
       [i \in 1..(stop - start + 1) |-> v] >>

\* the bounds a read may be given
ReadBounds == {<<>>} \cup {<<i>> : i \in Idx}

\* comparison of index tuples of at most one value, as tuples compare
IdxLt(a, b) == b # <<>> /\ (a = <<>> \/ a[1] < b[1])
IdxLe(a, b) == a = <<>> \/ (b # <<>> /\ a[1] <= b[1])
max(a, b) == IF IdxLt(a, b) THEN b ELSE a
min(a, b) == IF IdxLt(b, a) THEN b ELSE a

\* schema.serialize, schema.deserialize: the list of the values of an index
\* tuple and back
serialize(t) == [i \in 1..Len(t) |-> t[i]]
deserialize(l) == [i \in 1..Len(l) |-> l[i]]

\* the result of intersect when the ranges do not meet
None == <<>>

\* intersect(info, start, end): the reduced range
intersect(info, start, end) ==
    LET ok_start == end = <<>> \/ IdxLe(info.start, end)
        ok_end == start = <<>> \/ IdxLe(start, info.end)
    IN  IF ~(ok_start /\ ok_end) THEN None
        ELSE <<max(info.start, start), min(info.end, end)>>

\* Segment.from_pod: the column arrays read from their digests
from_pod(columns) == columns

\* Segment.slice(start, end, closed="both"): the rows whose index is within
\* the bounds, both included; an empty bound does not bound
RECURSIVE SgmSlice(_, _, _)
SgmSlice(sgm, start, end) ==
    IF sgm[1] = <<>> THEN sgm
    ELSE LET i == Head(sgm[1])
             rest == SgmSlice(<<Tail(sgm[1]), Tail(sgm[2])>>, start, end)
         IN  IF (start = <<>> \/ start[1] <= i) /\ (end = <<>> \/ i <= end[1])
             THEN << <<i>> \o rest[1], <<Head(sgm[2])>> \o rest[2] >>
             ELSE rest

\* Segment.concat: the columns one after the other
SgmConcat(a, b) == <<a[1] \o b[1], a[2] \o b[2]>>

\* Segment(schema): the segment of no row
EmptySgm == << <<>>, <<>> >>

\* Changelog.read: the content of each revision, in the order of walk
ChangelogRead(c) == [i \in 1..Len(walk(c)) |-> walk(c)[i].child]

reversed(s) == [i \in 1..Len(s) |-> s[Len(s) + 1 - i]]

\* Series._read with limit = None: the first info that matches gives its
\* slice, the infos after it give what is left of it and right of it
RECURSIVE read_segments(_, _, _)
read_segments(series_info, start, end) ==
    IF series_info = <<>> THEN EmptySgm
    ELSE LET info == Head(series_info)
             match == intersect(info, start, end)
         IN  IF match = None
             THEN read_segments(Tail(series_info), start, end)
             ELSE LET sgm == SgmSlice(from_pod(info.columns), match[1], match[2])
                      mstart == match[1]
                      mend == match[2]
                      left_sgm == IF IdxLt(start, mstart)
                                  THEN read_segments(Tail(series_info), start, mstart)
                                  ELSE EmptySgm
                      right_sgm == IF IdxLt(mend, end)
                                   THEN read_segments(Tail(series_info), mend, end)
                                   ELSE EmptySgm
                  IN  SgmConcat(SgmConcat(left_sgm, sgm), right_sgm)

\* Series.read(start, end) on the changelog c
ReadContents(contents, start, end) ==
    LET infos == [i \in 1..Len(contents) |->
                    [contents[i] EXCEPT
                        !.start = deserialize(@), !.end = deserialize(@)]]
        series_info == SelectSeq(infos,
                           LAMBDA info : intersect(info, deserialize(start),
                                                   deserialize(end)) # None)
    IN  read_segments(reversed(series_info), deserialize(start),
                      deserialize(end))

read(c, start, end) == ReadContents(ChangelogRead(c), start, end)

\* Series.write(sgm) with no start and no end: the columns are saved, then
\* the info is committed on the leaf; what an earlier read returned is
\* forgotten
Write(sgm) ==
    /\ now < MaxTime
    /\ files' = PodWrite(PodWrite(files, <<sgm[1], Plain>>), <<sgm[2], Plain>>)
    /\ LET info == [start |-> serialize(<<sgm[1][1]>>),
                    end |-> serialize(<<sgm[1][Len(sgm[1])]>>),
                    size |-> Len(sgm[1]),
                    timestamp |-> now,
                    columns |-> sgm]
       IN  chl' = ChlWrite(chl, Rev(LeafParent(chl), info))
    /\ now' = now + 1
    /\ rd_start' = <<>>
    /\ rd_end' = <<>>
    /\ rd_frame' = <<>>
    /\ rd_done' = FALSE
    /\ UNCHANGED NotRead

\* a write of the rows start..stop, whose values tell the write
WriteRange(start, stop) ==
    /\ start <= stop
    /\ Write(SgmOf(start, stop, now))

\* Series.read(start, end)
Read(start, end) ==
    /\ rd_start' = start
    /\ rd_end' = end
    /\ rd_frame' = read(chl, start, end)
    /\ rd_done' = TRUE
    /\ UNCHANGED <<podvars, NotRead>>

NextRead ==
    \/ \E start \in Idx, stop \in Idx : WriteRange(start, stop)
    \/ \E start \in ReadBounds, end \in ReadBounds : Read(start, end)

SpecRead == Init /\ [][NextRead]_vars

(***************************************************************************)
(* Collection.multi and Batch (lakota/collection.py, lakota/batch.py) on   *)
(* the changelog of one collection.  A revision file is the record of its  *)
(* parent, its child, its hextime and its payload.                         *)
(***************************************************************************)
\* the writes made inside a batch: (label, start, stop)
BatchWrites == {<<1, 1, 2>>, <<2, 1, 1>>}

\* Batch.flush, line 24, with the root flag ignored
FlushLeafRootIgnored(r, c) == leaf(c)

\* Batch.flush, line 24: leaf_rev
FlushLeaf(r, c) == IF r THEN NoLeaf ELSE leaf(c)

\* Batch.flush, lines 41-44: each buffered update applied in its turn
RECURSIVE FlushUpdates(_, _)
FlushUpdates(last_ci, infos) ==
    IF infos = <<>> THEN last_ci
    ELSE LET u == Head(infos)
         IN  FlushUpdates(update(last_ci, u.label, u.start, u.stop, u.all_dig,
                                 u.frame_len, "both"),
                          Tail(infos))

\* the flush that starts from the first update, as if there were no leaf
FlushCommitNoLeaf(leaf_rev, infos) ==
    LET u == Head(infos)
    IN  FlushUpdates(one(u.label, u.start, u.stop, u.all_dig, u.frame_len,
                         "both"),
                     Tail(infos))

\* Batch.flush, lines 27-44: the commit to save
FlushCommit(leaf_rev, infos) ==
    IF leaf_rev # NoLeaf
    THEN FlushUpdates(decode(leaf_rev.payload), infos)
    ELSE LET u == Head(infos)
         IN  FlushUpdates(one(u.label, u.start, u.stop, u.all_dig,
                              u.frame_len, "both"),
                          Tail(infos))

\* Batch.flush, lines 46-49: the revisions changelog.commit is asked for;
\* none when nothing is buffered
FlushRevs(r, c, infos, t) ==
    IF Len(infos) = 0 THEN <<>>
    ELSE LET leaf_rev == FlushLeaf(r, c)
             payload == encode(FlushCommit(leaf_rev, infos))
             parent == IF leaf_rev # NoLeaf THEN leaf_rev.child ELSE zero_hash
         IN  ChangelogCommit(payload, <<parent>>, t)

\* Collection.multi(root): b = Batch(self, root); self.batch = b
Multi(r) ==
    /\ bpc = "none"
    /\ flushes < MaxFlushes
    /\ bpc' = "open"
    /\ root' = r
    /\ ci_info' = <<>>
    /\ revs' = <<>>
    /\ UNCHANGED <<now, lchl, calls, flushes, NotBatch>>

\* Batch.append, called by a write made inside the batch; the digest is
\* new at each write
BatchAppend(label, start, stop) ==
    /\ bpc = "open"
    /\ Len(ci_info) < MaxBuffer
    /\ ci_info' = Append(ci_info,
                     [label |-> label, start |-> start, stop |-> stop,
                      all_dig |-> 10 * (flushes + 1) + Len(ci_info),
                      frame_len |-> stop - start + 1, embedded |-> <<>>])
    /\ UNCHANGED <<now, lchl, bpc, root, revs, calls, flushes, NotBatch>>

\* the end of Collection.multi: b.flush(); self.batch = None
Flush ==
    /\ bpc = "open"
    /\ LET new == FlushRevs(root, lchl, ci_info, now)
       IN  /\ lchl' = lchl \cup Range(new)
           /\ revs' = new
           /\ calls' = IF Len(ci_info) = 0 THEN calls
                       ELSE Append(calls, [i \in 1..Len(new) |-> new[i].parent])
           /\ now' = IF Len(ci_info) = 0 THEN now ELSE now + 1
    /\ bpc' = "none"
    /\ flushes' = flushes + 1
    /\ UNCHANGED <<ci_info, root, NotBatch>>

NextBatch ==
    \/ \E r \in BOOLEAN : Multi(r)
    \/ \E w \in BatchWrites : BatchAppend(w[1], w[2], w[3])
    \/ Flush

SpecBatch == Init /\ [][NextBatch]_vars


(***************************************************************************)
(* The batch of a Collection is held in a threading.local                  *)
(* (lakota/collection.py): __init__ sets the attribute in the thread that  *)
(* makes the object, the other threads have no such attribute until they   *)
(* set it.                                                                 *)
(***************************************************************************)
NotThreads == <<files, chl, wvars, gcvars, pullvars, forkvars, civars,
                readvars, bpc, ci_info, root, revs, calls, clctvars, mergevars, syncvars, repovars, storevars, delvars, snapvars, errvars, limvars, bodyvars, sqvars, pkvars>>

\* the update a thread writes: the digest tells the thread
ThreadUpdate(t, w, n) ==
    [label |-> w[1], start |-> w[2], stop |-> w[3],
     all_dig |-> 100 * t + 10 * now + n,
     frame_len |-> w[3] - w[2] + 1, embedded |-> <<>>]

\* the batch property read by a thread: self._local.batch
BatchGet(t) == IF tbatch[t] = "unset" THEN "AttributeError" ELSE tbatch[t]

\* Collection.multi in thread t: b = Batch(self, root); self.batch = b
ThreadMulti(t) ==
    /\ tbatch[t] # "open"
    /\ flushes < MaxFlushes
    /\ tbatch' = [tbatch EXCEPT ![t] = "open"]
    /\ tinfo' = [tinfo EXCEPT ![t] = <<>>]
    /\ flushes' = flushes + 1
    /\ UNCHANGED <<now, lchl, tres, NotThreads>>

\* a write of a series by thread t: buffered when the thread sees a batch,
\* committed on the leaf when it sees None, and ended by the AttributeError
\* when the thread has no batch attribute
ThreadWrite(t, w) ==
    /\ now < MaxTime
    /\ Len(tinfo[t]) < MaxBuffer
    /\ LET seen == BatchGet(t)
           u == ThreadUpdate(t, w, Len(tinfo[t]))
           ctx == [own |-> tbatch[t] = "open",
                   others |-> \E o \in Threads \ {t} : tbatch[o] = "open"]
       IN  \/ /\ seen = "AttributeError"
              /\ tres' = [tres EXCEPT ![t] = [outcome |-> "AttributeError",
                              own |-> ctx.own, others |-> ctx.others]]
              /\ UNCHANGED <<now, lchl, tinfo>>
           \/ /\ seen = "None"
              /\ lchl' = lchl \cup Range(FlushRevs(FALSE, lchl, <<u>>, now))
              /\ now' = now + 1
              /\ tres' = [tres EXCEPT ![t] = [outcome |-> "committed",
                              own |-> ctx.own, others |-> ctx.others]]
              /\ UNCHANGED tinfo
           \/ /\ seen = "open"
              /\ tinfo' = [tinfo EXCEPT ![t] = Append(@, u)]
              /\ tres' = [tres EXCEPT ![t] = [outcome |-> "buffered",
                              own |-> ctx.own, others |-> ctx.others]]
              /\ UNCHANGED <<now, lchl>>
    /\ UNCHANGED <<tbatch, flushes, NotThreads>>

\* the end of Collection.multi in thread t: b.flush(); self.batch = None
ThreadFlush(t) ==
    /\ tbatch[t] = "open"
    /\ Len(tinfo[t]) = 0 \/ now < MaxTime
    /\ lchl' = lchl \cup Range(FlushRevs(FALSE, lchl, tinfo[t], now))
    /\ now' = IF Len(tinfo[t]) = 0 THEN now ELSE now + 1
    /\ tbatch' = [tbatch EXCEPT ![t] = "None"]
    /\ UNCHANGED <<tinfo, tres, flushes, NotThreads>>

NextThreads ==
    \/ \E t \in Threads : ThreadMulti(t)
    \/ \E t \in Threads, w \in BatchWrites : ThreadWrite(t, w)
    \/ \E t \in Threads : ThreadFlush(t)

SpecThreads == Init /\ [][NextThreads]_vars


(***************************************************************************)
(* Collection.delete (lakota/collection.py) after writes of series made    *)
(* outside of a batch.                                                     *)
(***************************************************************************)
NotClct == <<chl, wvars, gcvars, pullvars, forkvars, civars, readvars,
             bpc, ci_info, root, revs, calls, flushes, threadvars, mergevars, syncvars, repovars, storevars, delvars, snapvars, errvars, limvars, bodyvars, sqvars, pkvars>>

\* Series.write outside of a batch: the blob is written, then the update is
\* committed on the leaf; the digest is new at each write
ClctWrite(w) ==
    /\ now < MaxTime
    /\ LET u == [label |-> w[1], start |-> w[2], stop |-> w[3],
                 all_dig |-> 10 * now, frame_len |-> w[3] - w[2] + 1,
                 embedded |-> <<>>]
       IN  /\ files' = PodWrite(files, <<u.all_dig, Plain>>)
           /\ lchl' = lchl \cup Range(FlushRevs(FALSE, lchl, <<u>>, now))
    /\ now' = now + 1
    /\ op' = [name |-> "write", labels |-> {w[1]}]
    /\ UNCHANGED NotClct

\* Commit.delete_labels: the commit minus the rows of the labels
delete_labels(ci, labels) == SelectSeq(ci, LAMBDA row : row.label \notin labels)

\* Collection.delete with the zero hash given as parent
DeleteRevsOnRoot(c, labels, t) ==
    IF leaf(c) = NoLeaf THEN <<>>
    ELSE ChangelogCommit(encode(delete_labels(decode(leaf(c).payload), labels)),
                         <<zero_hash>>, t)

\* Collection.delete: the revisions changelog.commit is asked for, none
\* when the changelog has no leaf
DeleteRevs(c, labels, t) ==
    LET leaf_rev == leaf(c)
    IN  IF leaf_rev = NoLeaf THEN <<>>
        ELSE LET ci == delete_labels(decode(leaf_rev.payload), labels)
                 parent == leaf_rev.child
             IN  ChangelogCommit(encode(ci), <<parent>>, t)

\* Collection.delete(*labels)
ClctDelete(labels) ==
    /\ now < MaxTime
    /\ lchl' = lchl \cup Range(DeleteRevs(lchl, labels, now))
    /\ now' = IF leaf(lchl) = NoLeaf THEN now ELSE now + 1
    /\ op' = [name |-> "delete", labels |-> labels]
    /\ UNCHANGED <<files, NotClct>>

NextDelete ==
    \/ \E w \in ClctWrites : ClctWrite(w)
    \/ \E labels \in SUBSET Labels \ {{}} : ClctDelete(labels)

SpecDelete == Init /\ [][NextDelete]_vars


(***************************************************************************)
(* Collection.merge (lakota/collection.py) on a changelog that writers     *)
(* fork: a write loads the leaf, then commits on it, and another write may *)
(* commit in between.  The digest of a write tells its content.            *)
(***************************************************************************)
NotMerge == <<files, chl, wvars, gcvars, pullvars, forkvars, civars,
              readvars, bpc, ci_info, root, revs, calls, flushes,
              threadvars, syncvars, repovars, storevars, delvars, snapvars, errvars, limvars, bodyvars, sqvars, pkvars>>

\* the writes of the writers that fork: (label, start, stop)
MergeWrites == {<<1, 1, 1>>, <<1, 1, 2>>, <<2, 1, 1>>}

\* Series.write, first step: the leaf is loaded
WriteLoad(a) ==
    /\ ~wloaded[a]
    /\ Cardinality(lchl) < MaxCommits
    /\ wleaf' = [wleaf EXCEPT ![a] = leaf(lchl)]
    /\ wloaded' = [wloaded EXCEPT ![a] = TRUE]
    /\ op' = [name |-> "load", labels |-> {}]
    /\ UNCHANGED <<now, lchl, mrevs, NotMerge>>

\* Series.write, second step: the update is committed on the leaf loaded
WriteCommit(a, w) ==
    /\ wloaded[a]
    /\ Cardinality(lchl) < MaxCommits
    /\ LET u == [label |-> w[1], start |-> w[2], stop |-> w[3],
                 all_dig |-> 100 * w[1] + 10 * w[2] + w[3],
                 frame_len |-> w[3] - w[2] + 1, embedded |-> <<>>]
           parent == IF wleaf[a] # NoLeaf THEN wleaf[a].child ELSE zero_hash
       IN  lchl' = lchl \cup
               Range(ChangelogCommit(encode(FlushCommit(wleaf[a], <<u>>)),
                                     <<parent>>, now))
    /\ now' = now + 1
    /\ wloaded' = [wloaded EXCEPT ![a] = FALSE]
    /\ wleaf' = [wleaf EXCEPT ![a] = NoLeaf]
    /\ op' = [name |-> "write", labels |-> {w[1]}]
    /\ UNCHANGED <<mrevs, NotMerge>>

\* Revision.is_leaf: no revision has the child of r as parent
IsLeaf(c, r) == \A x \in c : x.parent # r.child

\* heads = [r for r in revisions if r.is_leaf]
HeadsOf(c, revisions) == SelectSeq(revisions, LAMBDA r : IsLeaf(c, r))

Heads(c) == HeadsOf(c, Log(c))

\* ch2pr[child]: the revisions that have this child, in the order of log
ch2pr(revisions, child) == SelectSeq(revisions, LAMBDA r : r.child = child)

\* Collection._find_parents: the queue is popped from its end, the
\* revisions of the parent are put at its end
RECURSIVE FindParentsFrom(_, _, _)
FindParentsFrom(revisions, queue, fuel) ==
    IF queue = <<>> \/ fuel = 0 THEN <<>>
    ELSE LET rev == queue[Len(queue)]
         IN  <<rev>> \o FindParentsFrom(revisions,
                            SubSeq(queue, 1, Len(queue) - 1)
                                \o ch2pr(revisions, rev.parent),
                            fuel - 1)

find_parents(revisions, rev) ==
    FindParentsFrom(revisions, ch2pr(revisions, rev.child),
                    Cardinality(Range(revisions)) * Cardinality(Range(revisions)))

\* the test of line 148 with the bound one lower
SameChildNever(heads) == Cardinality({heads[i].child : i \in 1..Len(heads)}) < 1

\* lines 146-149: the heads point to less than two children
SameChild(heads) == Cardinality({heads[i].child : i \in 1..Len(heads)}) < 2

\* lines 156-163: the first of first_parents that is in every other list;
\* when there is none the loop leaves the last of first_parents in root
MergeRoot(revisions, heads) ==
    LET first_parents == find_parents(revisions, heads[1])
        other_parents == [k \in 1..Len(heads) - 1 |->
                             Range(find_parents(revisions, heads[k + 1]))]
        common == {i \in 1..Len(first_parents) :
                     \A k \in 1..Len(heads) - 1 :
                        first_parents[i] \in other_parents[k]}
    IN  IF common # {}
        THEN first_parents[CHOOSE i \in common : \A j \in common : i <= j]
        ELSE first_parents[Len(first_parents)]

\* lines 170-175: the rows of one other commit piled into the first one
RECURSIVE MergeRows(_, _, _)
MergeRows(first_ci, rows, root_ci) ==
    IF rows = <<>> THEN first_ci
    ELSE LET row == Head(rows)
         IN  IF row \in Range(first_ci) \/ row \in Range(root_ci)
             THEN MergeRows(first_ci, Tail(rows), root_ci)
             ELSE MergeRows(UpdateRow(first_ci, row), Tail(rows), root_ci)

\* lines 167-175: the rows of all other commits piled into the first one
RECURSIVE MergeHeads(_, _, _)
MergeHeads(first_ci, others, root_ci) ==
    IF others = <<>> THEN first_ci
    ELSE MergeHeads(MergeRows(first_ci, decode(Head(others).payload), root_ci),
                    Tail(others), root_ci)

\* the merge that commits on the first head only
MergeRevsFirstHead(c, t) ==
    LET revisions == Log(c)
        heads == HeadsOf(c, revisions)
    IN  IF revisions = <<>> THEN <<>>
        ELSE IF SameChild(heads) THEN <<>>
        ELSE LET root_ci == decode(MergeRoot(revisions, heads).payload)
                 first_ci == MergeHeads(decode(heads[1].payload), Tail(heads),
                                        root_ci)
             IN  ChangelogCommit(encode(first_ci), <<heads[1].child>>, t)

\* Collection.merge(): the revisions changelog.commit is asked for
MergeRevs(c, t) ==
    LET revisions == Log(c)
        heads == HeadsOf(c, revisions)
    IN  IF revisions = <<>> THEN <<>>
        ELSE IF SameChild(heads) THEN <<>>
        ELSE LET root_ci == decode(MergeRoot(revisions, heads).payload)
                 first_ci == MergeHeads(decode(heads[1].payload), Tail(heads),
                                        root_ci)
             IN  ChangelogCommit(encode(first_ci),
                                 [i \in 1..Len(heads) |-> heads[i].child], t)

\* Collection.merge()
Merge ==
    /\ Cardinality(lchl) < MaxCommits
    /\ LET merged == MergeRevs(lchl, now)
       IN  /\ mrevs' = merged
           /\ lchl' = lchl \cup Range(merged)
           /\ now' = IF merged = <<>> THEN now ELSE now + 1
    /\ op' = [name |-> "merge", labels |-> {}]
    /\ UNCHANGED <<wleaf, wloaded, NotMerge>>

NextMerge ==
    \/ \E a \in Actors : WriteLoad(a)
    \/ \E a \in Actors, w \in MergeWrites : WriteCommit(a, w)
    \/ Merge

SpecMerge == Init /\ [][NextMerge]_vars


(***************************************************************************)
(* Collection.squash(pack=True, trim=True) (lakota/collection.py).  The    *)
(* digest of a frame tells its content: the sequence of its (index, value) *)
(* lines.                                                                  *)
(***************************************************************************)
\* the frame a write gives: the value of each line is the time of the write
FrameOf(w, t) == [k \in 1..(w[3] - w[2] + 1) |-> <<w[2] + k - 1, t>>]

\* Series.write of a frame: the update given to the batch or committed
FrameUpdate(label, frm) ==
    [label |-> label, start |-> frm[1][1], stop |-> frm[Len(frm)][1],
     all_dig |-> frm, frame_len |-> Len(frm), embedded |-> <<>>]

\* Series.write outside of a batch: the blob is written, then the update is
\* committed on the leaf
FrameWrite(w) ==
    /\ now < MaxTime
    /\ LET u == FrameUpdate(w[1], FrameOf(w, now))
       IN  /\ files' = PodWrite(files, <<u.all_dig, Plain>>)
           /\ lchl' = lchl \cup Range(FlushRevs(FALSE, lchl, <<u>>, now))
    /\ now' = now + 1
    /\ op' = [name |-> "write", labels |-> {w[1]}]
    /\ UNCHANGED NotClct

\* the segment of a row: the frame of the digest sliced to the row
RowFrame(row) ==
    SelectSeq(row.digest,
              LAMBDA l : /\ IF row.closed \in {"both", "left"}
                            THEN row.start <= l[1] ELSE row.start < l[1]
                         /\ IF row.closed \in {"both", "right"}
                            THEN l[1] <= row.stop ELSE l[1] < row.stop)

RECURSIVE CommitFrame(_, _)
CommitFrame(ci, label) ==
    IF ci = <<>> THEN <<>>
    ELSE (IF Head(ci).label = label THEN RowFrame(Head(ci)) ELSE <<>>)
             \o CommitFrame(Tail(ci), label)

\* Series.read over the whole index: the rows of the label in the leaf commit
ReadSeries(c, label) ==
    IF leaf(c) = NoLeaf THEN <<>>
    ELSE CommitFrame(decode(leaf(c).payload), label)

\* Collection.ls: the labels of the leaf commit
ls(c) ==
    IF leaf(c) = NoLeaf THEN {}
    ELSE {row.label : row \in Range(decode(leaf(c).payload))}

\* squash, lines 222-230: each series is written again, in the order of
\* the labels, one frame for the whole series; an empty series gives no frame
RECURSIVE SquashInfos(_, _, _)
SquashInfos(c, labels, l) ==
    IF l > Cardinality(Labels) THEN <<>>
    ELSE (IF l \in labels /\ ReadSeries(c, l) # <<>>
          THEN <<FrameUpdate(l, ReadSeries(c, l))>> ELSE <<>>)
             \o SquashInfos(c, labels, l + 1)

\* squash, line 226: the batch is opened by self.multi(), root is None
SquashRoot == FALSE

\* squash, lines 226-230: the revisions of the batch
SquashRevs(c, t) == FlushRevs(SquashRoot, c, SquashInfos(c, ls(c), 1), t)

\* squash, lines 232-237: the revisions removed
SquashRemoved(c, batch_revs) ==
    IF batch_revs = <<>>
    THEN Range(SubSeq(Log(c), 1, Len(Log(c)) - 1))
    ELSE Range(Log(c))

\* Collection.squash(pack=True, trim=True)
Squash ==
    /\ now < MaxTime
    /\ LET batch_revs == SquashRevs(lchl, now)
       IN  /\ files' = files \cup
                  {<<u.all_dig, Plain>> : u \in Range(SquashInfos(lchl, ls(lchl), 1))}
           /\ lchl' = (lchl \cup Range(batch_revs)) \ SquashRemoved(lchl, batch_revs)
           /\ now' = IF batch_revs = <<>> THEN now ELSE now + 1
    /\ op' = [name |-> "squash", labels |-> {}]
    /\ UNCHANGED NotClct

NextSquash ==
    \/ \E w \in ClctWrites : FrameWrite(w)
    \/ Squash

SpecSquash == Init /\ [][NextSquash]_vars


(***************************************************************************)
(* Two collections of one label in two repos, synchronised by              *)
(* Collection.pull and Collection.push (lakota/collection.py): side 1 has  *)
(* the pod files and the changelog lchl, side 2 has rfiles and rlchl.      *)
(***************************************************************************)
NotSync == <<chl, wvars, gcvars, rchl, ppc, pool, local_revs, pull_pos,
             forkvars, civars, readvars, bpc, ci_info, root, revs, calls,
             flushes, threadvars, mergevars, repovars, storevars, delvars, snapvars, errvars, limvars, bodyvars, sqvars, pkvars>>

Sides == {1, 2}
Other(s) == 3 - s
ChlOf(s) == IF s = 1 THEN lchl ELSE rlchl
BlobsAt(s) == IF s = 1 THEN files ELSE rfiles

\* the side s gets the changelog c and the blobs b, the other side is left
SideSet(s, c, b) ==
    IF s = 1
    THEN lchl' = c /\ files' = b /\ UNCHANGED <<rlchl, rfiles>>
    ELSE rlchl' = c /\ rfiles' = b /\ UNCHANGED <<lchl, files>>

\* the batches written: one series, or two series in one multi() block
SyncWrites == {<< <<1, 1, 1>> >>, << <<2, 1, 1>> >>, << <<1, 1, 2>>, <<2, 1, 1>> >>}

SyncInfos(ws, t) == [i \in 1..Len(ws) |-> FrameUpdate(ws[i][1], FrameOf(ws[i], t))]

\* the sides are written in turn (the tests sleep "to avoid concurrent
\* writes"): a side writes or deletes when it holds every revision file of
\* the other side
InTurn(s) == ChlOf(Other(s)) \subseteq ChlOf(s)

\* Series.write, alone or in a batch: the blobs, then one revision
SyncWrite(s, ws) ==
    /\ now < MaxTime
    /\ InTurn(s)
    /\ SideSet(s, ChlOf(s) \cup Range(FlushRevs(FALSE, ChlOf(s), SyncInfos(ws, now), now)),
               BlobsAt(s) \cup {<<u.all_dig, Plain>> : u \in Range(SyncInfos(ws, now))})
    /\ now' = now + 1
    /\ op' = [name |-> "write", labels |-> {ws[i][1] : i \in 1..Len(ws)}]
    /\ sync' = NoSync
    /\ UNCHANGED NotSync

\* the two sides are synchronised: they hold the same revision files
InSync == lchl # {} /\ lchl = rlchl

\* Collection.delete(*labels) on the side s
SyncDelete(s, labels) ==
    /\ now < MaxTime
    /\ InTurn(s)
    /\ leaf(ChlOf(s)) # NoLeaf
    /\ SideSet(s, ChlOf(s) \cup Range(DeleteRevs(ChlOf(s), labels, now)), BlobsAt(s))
    /\ now' = now + 1
    /\ op' = [name |-> "delete", labels |-> labels]
    /\ sync' = IF InSync /\ labels \subseteq ls(ChlOf(s))
               THEN [stage |-> "deleted", side |-> s, labels |-> labels]
               ELSE NoSync
    /\ UNCHANGED NotSync

\* Collection.digests: the digests of the commits of log()
ClctDigests(c) ==
    UNION {{row.digest : row \in Range(decode(r.payload))} : r \in Range(Log(c))}

\* Changelog.pull: the remote files that are not listed locally are written
ChangelogPull(c, remote) == c \cup {rev \in remote : rev \notin c}

\* Collection.pull(remote) on the side s; the other side's push(s) is this
\* same call
SyncPull(s) ==
    /\ LET local_digs == ClctDigests(ChlOf(s))
           remote_digs == ClctDigests(ChlOf(Other(s)))
       IN  SideSet(s, ChangelogPull(ChlOf(s), ChlOf(Other(s))),
                   BlobsAt(s) \cup ({<<d, Plain>> : d \in remote_digs \ local_digs}
                                      \cap BlobsAt(Other(s))))
    /\ op' = [name |-> "pull", labels |-> {}]
    /\ sync' = IF sync.stage = "deleted" /\ sync.side = Other(s)
               THEN [sync EXCEPT !.stage = "synced"]
               ELSE NoSync
    /\ UNCHANGED <<now, NotSync>>

\* Collection.squash(pack=True, trim=True) on the side s
SyncSquash(s) ==
    /\ now < MaxTime
    /\ LET c == ChlOf(s)
           batch_revs == SquashRevs(c, now)
       IN  /\ SideSet(s, (c \cup Range(batch_revs)) \ SquashRemoved(c, batch_revs),
                      BlobsAt(s) \cup {<<u.all_dig, Plain>> :
                                          u \in Range(SquashInfos(c, ls(c), 1))})
           /\ now' = IF batch_revs = <<>> THEN now ELSE now + 1
    /\ op' = [name |-> "squash", labels |-> {}]
    /\ sync' = IF sync.stage = "synced" /\ sync.side = Other(s)
               THEN [sync EXCEPT !.stage = "squashed"]
               ELSE NoSync
    /\ UNCHANGED NotSync

NextSync ==
    \/ \E s \in Sides, ws \in SyncWrites : SyncWrite(s, ws)
    \/ \E s \in Sides, labels \in SUBSET Labels \ {{}} : SyncDelete(s, labels)
    \/ \E s \in Sides : SyncPull(s)
    \/ \E s \in Sides : SyncSquash(s)

SpecSync == Init /\ [][NextSync]_vars


(***************************************************************************)
(* Repo.create_collection and Repo.pull (lakota/repo.py).  The registry of *)
(* a repo is a collection whose series "collection" has one line for each  *)
(* collection label, with the path and the schema of the collection.  The  *)
(* collection labels are "", "a", "a " and "b"; the content of the         *)
(* collection "a" is lchl and files in repo 1, rlchl and rfiles in repo 2. *)
(***************************************************************************)
NotRepo == <<chl, wvars, gcvars, rchl, ppc, pool, local_revs, pull_pos,
             forkvars, civars, readvars, bpc, ci_info, root, revs, calls,
             flushes, threadvars, mergevars, sync, storevars, delvars, snapvars, errvars, limvars, bodyvars, sqvars, pkvars>>

\* the labels in string order: "" is 0, "a" is 2, "a " is 3, "b" is 4
LabelEmpty == 0
LabelA == 2
LabelAPadded == 3
LabelB == 4
Schemas == {1, 2}

\* label.strip()
strip(label) == 2 * (label \div 2)

\* the label lists given to create_collection
LabelLists == {<<LabelEmpty>>, <<LabelA>>, <<LabelAPadded>>, <<LabelA, LabelB>>}

\* the heads of the registry, the newest first
NewestFirst(c) ==
    LET heads == ByTime(Range(Heads(c)))
    IN  [i \in 1..Len(heads) |-> heads[Len(heads) + 1 - i]]

\* Series.read on the registry: the newest head that has lines in the range
\* gives them, the older heads give what is left of them and right of them
RECURSIVE RegReadHeads(_, _, _)
RegReadHeads(heads, lo, hi) ==
    IF heads = <<>> \/ lo > hi THEN <<>>
    ELSE LET frm == SelectSeq(CommitFrame(decode(Head(heads).payload), 1),
                              LAMBDA l : lo <= l[1] /\ l[1] <= hi)
         IN  IF frm = <<>> THEN RegReadHeads(Tail(heads), lo, hi)
             ELSE RegReadHeads(Tail(heads), lo, frm[1][1] - 1)
                      \o frm
                      \o RegReadHeads(Tail(heads), frm[Len(frm)][1] + 1, hi)

\* series.frame(start, stop, closed="BOTH") on the registry
RegFrame(c, start, stop) == RegReadHeads(NewestFirst(c), start, stop)

\* Repo.search(): label -> meta
search(c) ==
    LET frm == RegFrame(c, LabelEmpty, LabelB)
    IN  [label \in {frm[i][1] : i \in 1..Len(frm)} |->
            (CHOOSE l \in Range(frm) : l[1] = label)[2]]

SeqMin(s) == CHOOSE x \in Range(s) : \A y \in Range(s) : x <= y
SeqMax(s) == CHOOSE x \in Range(s) : \A y \in Range(s) : x >= y

\* create_collection, lines 162-164
current_labels(c, labels) ==
    LET frm == RegFrame(c, SeqMin(labels), SeqMax(labels))
    IN  {frm[i][1] : i \in 1..Len(frm)}

\* create_collection, lines 166-171: some label makes the loop raise
CreateRaises(c, labels, raise_if_exists) ==
    \E i \in 1..Len(labels) :
       \/ strip(labels[i]) = LabelEmpty
       \/ strip(labels[i]) \in current_labels(c, labels) /\ raise_if_exists

\* create_collection, lines 173-182: the frame written to the registry
CreateFrame(schema, labels) ==
    [i \in 1..Len(labels) |->
        <<labels[i], [path |-> strip(labels[i]), schema |-> schema]>>]

\* create_collection: the registry after the call and how the call ended
CreateResult(c, schema, labels, raise_if_exists, t) ==
    IF CreateRaises(c, labels, raise_if_exists)
    THEN [reg |-> c, error |-> "ValueError"]
    ELSE [reg |-> c \cup Range(FlushRevs(FALSE, c,
                                  <<FrameUpdate(1, CreateFrame(schema, labels))>>, t)),
          error |-> "none"]

\* Repo.create_collection(schema, *labels, raise_if_exists)
CreateCollection(s, schema, labels, raise_if_exists) ==
    /\ now < MaxTime
    /\ LET res == CreateResult(reg[s], schema, labels, raise_if_exists, now)
       IN  /\ reg' = [reg EXCEPT ![s] = res.reg]
           /\ rret' = res.error
           /\ now' = IF res.error = "none" THEN now + 1 ELSE now
    /\ op' = [name |-> "create", labels |-> Range(labels), side |-> s,
              raise_if_exists |-> raise_if_exists]
    /\ UNCHANGED <<files, rfiles, lchl, rlchl, NotRepo>>

\* the repo has a collection that is stored under the path of "a"
HasA(c) == \E label \in DOMAIN search(c) : search(c)[label].path = LabelA

\* a write to a series of the collection "a" of the repo s
RepoWrite(s) ==
    /\ now < MaxTime
    /\ HasA(reg[s])
    /\ LET infos == SyncInfos(<< <<1, 1, 1>> >>, now)
       IN  SideSet(s, ChlOf(s) \cup Range(FlushRevs(FALSE, ChlOf(s), infos, now)),
                   BlobsAt(s) \cup {<<u.all_dig, Plain>> : u \in Range(infos)})
    /\ now' = now + 1
    /\ op' = [name |-> "write", labels |-> {1}, side |-> s]
    /\ UNCHANGED <<reg, rret, NotRepo>>

\* the labels of a cache in the order of the dict
CacheKeys(cache) ==
    LET RECURSIVE Asc(_)
        Asc(S) == IF S = {} THEN <<>>
                  ELSE LET m == CHOOSE x \in S : \A y \in S : x <= y
                       IN  <<m>> \o Asc(S \ {m})
    IN  Asc(DOMAIN cache)

\* Repo.pull, lines 255-266: the loop over the remote labels; st holds the
\* local registry, the paths whose collection was pulled, and the error
RECURSIVE PullLoop(_, _, _, _, _)
PullLoop(labels, local_cache, remote_cache, st, t) ==
    IF labels = <<>> THEN st
    ELSE LET label == Head(labels)
             r_clct == remote_cache[label]
         IN  IF label \notin DOMAIN local_cache
             THEN LET res == CreateResult(st.reg, r_clct.schema, <<label>>, TRUE, t)
                  IN  IF res.error # "none"
                      THEN [st EXCEPT !.error = res.error]
                      ELSE PullLoop(Tail(labels), local_cache, remote_cache,
                                    [st EXCEPT !.reg = res.reg,
                                               !.pulled = @ \cup {r_clct.path}],
                                    t)
             ELSE IF local_cache[label].schema # r_clct.schema
             THEN [st EXCEPT !.error = "ValueError"]
             ELSE PullLoop(Tail(labels), local_cache, remote_cache,
                           [st EXCEPT !.pulled = @ \cup {r_clct.path}], t)

\* Repo.pull(remote) in the repo s
RepoPull(s) ==
    /\ now < MaxTime
    /\ LET pulled_reg == ChangelogPull(reg[s], reg[Other(s)])
           local_cache == search(pulled_reg)
           remote_cache == search(reg[Other(s)])
           st == PullLoop(CacheKeys(remote_cache), local_cache, remote_cache,
                          [reg |-> pulled_reg, pulled |-> {}, error |-> "none"],
                          now)
       IN  /\ reg' = [reg EXCEPT ![s] = st.reg]
           /\ rret' = st.error
           /\ now' = IF st.reg # pulled_reg THEN now + 1 ELSE now
           /\ IF LabelA \in st.pulled
              THEN SideSet(s, ChangelogPull(ChlOf(s), ChlOf(Other(s))),
                           BlobsAt(s) \cup
                              ({<<d, Plain>> : d \in ClctDigests(ChlOf(Other(s)))
                                                      \ ClctDigests(ChlOf(s))}
                                 \cap BlobsAt(Other(s))))
              ELSE UNCHANGED <<files, rfiles, lchl, rlchl>>
    /\ op' = [name |-> "repo_pull", labels |-> {}, side |-> s]
    /\ UNCHANGED NotRepo

NextRepo ==
    \/ \E s \in Sides, schema \in Schemas, labels \in LabelLists,
          raise_if_exists \in BOOLEAN :
          CreateCollection(s, schema, labels, raise_if_exists)
    \/ \E s \in Sides : RepoWrite(s)
    \/ \E s \in Sides : RepoPull(s)

SpecRepo == Init /\ [][NextRepo]_vars


(***************************************************************************)
(* MemPOD.write and FilePOD.write (lakota/pod.py) on pods that hold bytes, *)
(* and Changelog.commit (baltic/changelog.py) with a given parent on such  *)
(* a pod.  A pod is the function from its keys to the bytes they hold.     *)
(***************************************************************************)
NotStore == <<podvars, wvars, gcvars, pullvars, forkvars, civars, readvars,
              batchvars, threadvars, mergevars, syncvars, repovars, delvars, snapvars, errvars, limvars, bodyvars, sqvars, pkvars>>

PodKinds == {"mem", "file"}

\* the items committed, and the parents they are committed on
PodItems == {Payload(sgm, 1) : sgm \in Segments1}
PodParents == {phi, sha1(Payload([c \in {1} |-> 1], 1))}

\* data = VLenUTF8().encode(arr): the count of the items, then the items
VLenEncode(items) == <<1, items>>

\* the keys and the bytes given to write
PodKeys == {Rev(parent, items) : parent \in PodParents, items \in PodItems}
PodBytes == {VLenEncode(items) : items \in PodItems}

\* MemPOD.write: the store after the call
MemWriteOver(st, relpath, data) ==
    [k \in DOMAIN st \cup {relpath} |-> IF k = relpath THEN data ELSE st[k]]

MemWrite(st, relpath, data) ==
    IF relpath \in DOMAIN st
    THEN st
    ELSE [k \in DOMAIN st \cup {relpath} |-> IF k = relpath THEN data ELSE st[k]]

\* FilePOD.write: the folder after the call
FileWrite(st, relpath, data) ==
    IF relpath \in DOMAIN st
    THEN st
    ELSE [k \in DOMAIN st \cup {relpath} |-> IF k = relpath THEN data ELSE st[k]]

\* the write of the pod of the kind p
WriteOf(p, st, relpath, data) ==
    IF p = "mem" THEN MemWrite(st, relpath, data)
    ELSE FileWrite(st, relpath, data)

\* what write returns: None when it skips, the count of bytes otherwise
WriteRet(st, relpath) == IF relpath \in DOMAIN st THEN "None" ELSE "len"

\* pod.write(relpath, data)
StoreWrite(p, relpath, data) ==
    /\ store' = [store EXCEPT ![p] = WriteOf(p, store[p], relpath, data)]
    /\ wret' = WriteRet(store[p], relpath)
    /\ op' = [name |-> "write", labels |-> {}, pod |-> p, key |-> relpath,
              data |-> data, existed |-> relpath \in DOMAIN store[p]]
    /\ UNCHANGED NotStore

\* Changelog.commit(items, parent=parent) on the pod of the kind p
StoreCommit(p, items, parent) ==
    LET data == VLenEncode(items)
        filename == Rev(parent, items)
    IN /\ store' = [store EXCEPT ![p] = WriteOf(p, store[p], filename, data)]
       /\ wret' = filename
       /\ op' = [name |-> "commit", labels |-> {}, pod |-> p,
                 key |-> filename, data |-> data,
                 existed |-> filename \in DOMAIN store[p]]
       /\ UNCHANGED NotStore

NextStore ==
    \/ \E p \in PodKinds, relpath \in PodKeys, data \in PodBytes :
          StoreWrite(p, relpath, data)
    \/ \E p \in PodKinds, items \in PodItems, parent \in PodParents :
          StoreCommit(p, items, parent)

\* writes and commits on a pod of each kind
SpecStore == Init /\ [][NextStore]_vars


(***************************************************************************)
(* Repo.delete and Repo.push (lakota/repo.py) on a local repo, 1, that     *)
(* holds the collections "a" and "b" and pushes to a remote repo, 2.  The  *)
(* changelog folder of "b" is bchl in each repo.                           *)
(***************************************************************************)
NotRepoDelete == <<chl, wvars, gcvars, rchl, ppc, pool, local_revs, pull_pos,
                   forkvars, civars, readvars, bpc, ci_info, root, revs,
                   calls, flushes, threadvars, mergevars, sync, storevars, snapvars, errvars, limvars, bodyvars, sqvars, pkvars>>

Local == 1

\* the label lists given to create_collection, push and delete
ABLists == {<<LabelA>>, <<LabelB>>, <<LabelA, LabelB>>}

\* the repo has a collection that is stored under the path of "b"
HasB(c) == \E label \in DOMAIN search(c) : search(c)[label].path = LabelB

\* a write to a series of the collection "b" of the repo s
RepoWriteB(s) ==
    /\ now < MaxTime
    /\ HasB(reg[s])
    /\ LET infos == SyncInfos(<< <<2, 1, 1>> >>, now)
       IN  /\ bchl' = [bchl EXCEPT ![s] =
                          @ \cup Range(FlushRevs(FALSE, @, infos, now))]
           /\ IF s = 1
              THEN files' = files \cup {<<u.all_dig, Plain>> : u \in Range(infos)}
                   /\ UNCHANGED rfiles
              ELSE rfiles' = rfiles \cup {<<u.all_dig, Plain>> : u \in Range(infos)}
                   /\ UNCHANGED files
    /\ now' = now + 1
    /\ op' = [name |-> "write", labels |-> {2}, side |-> s]
    /\ UNCHANGED <<lchl, rlchl, reg, rret, NotRepoDelete>>

\* the changelog folder stored under the path p in the repo s
FolderOf(s, p) == IF p = LabelA THEN ChlOf(s) ELSE bchl[s]

\* l_clct.pull(r_clct): the folder of the path p of dst after the pull
PulledFolder(dst, src, p, pulled) ==
    IF p \in pulled THEN ChangelogPull(FolderOf(dst, p), FolderOf(src, p))
    ELSE FolderOf(dst, p)

\* l_clct.pull(r_clct): the blobs of dst after the pull of the paths pulled
PulledBlobs(dst, src, pulled) ==
    BlobsAt(dst) \cup
       ({<<d, Plain>> : d \in UNION {ClctDigests(FolderOf(src, p))
                                        \ ClctDigests(FolderOf(dst, p)) :
                                     p \in pulled}}
          \cap BlobsAt(src))

\* Repo.push(remote, *labels) in the repo s: remote.pull(self, *labels)
RepoPush(s, labels) ==
    /\ now < MaxTime
    /\ LET dst == Other(s)
           pulled_reg == ChangelogPull(reg[dst], reg[s])
           local_cache == search(pulled_reg)
           remote_cache == search(reg[s])
           known == Range(labels) \subseteq DOMAIN remote_cache
           todo == IF labels = <<>> THEN CacheKeys(remote_cache) ELSE labels
           st == IF known
                 THEN PullLoop(todo, local_cache, remote_cache,
                               [reg |-> pulled_reg, pulled |-> {},
                                error |-> "none"], now)
                 ELSE [reg |-> pulled_reg, pulled |-> {}, error |-> "KeyError"]
           a == PulledFolder(dst, s, LabelA, st.pulled)
           b == PulledFolder(dst, s, LabelB, st.pulled)
           blobs == PulledBlobs(dst, s, st.pulled)
       IN  /\ reg' = [reg EXCEPT ![dst] = st.reg]
           /\ rret' = st.error
           /\ now' = IF st.reg # pulled_reg THEN now + 1 ELSE now
           /\ bchl' = [bchl EXCEPT ![dst] = b]
           /\ IF dst = 1
              THEN lchl' = a /\ files' = blobs /\ UNCHANGED <<rlchl, rfiles>>
              ELSE rlchl' = a /\ rfiles' = blobs /\ UNCHANGED <<lchl, files>>
    /\ op' = [name |-> "repo_push", labels |-> Range(labels), side |-> s]
    /\ UNCHANGED NotRepoDelete

\* Repo.delete, lines 206-211, with nothing kept to remove
to_remove_none(c, labels) == {}

\* Repo.delete, lines 206-211: the paths of the changelog pods to remove
to_remove(c, labels) ==
    {RegFrame(c, l, l)[Len(RegFrame(c, l, l))][2].path :
        l \in {x \in Range(labels) : RegFrame(c, x, x) # <<>>}}

\* series.delete(*labels) on the registry: the lines of the registry but
\* those of the labels are written over the range of the registry
RegDeleteRevs(c, labels, t) ==
    LET frm == RegFrame(c, LabelEmpty, LabelB)
        new_frm == SelectSeq(frm, LAMBDA l : l[1] \notin Range(labels))
    IN  IF frm = <<>> \/ new_frm = frm THEN <<>>
        ELSE FlushRevs(FALSE, c,
                       << [label |-> 1, start |-> frm[1][1],
                           stop |-> frm[Len(frm)][1], all_dig |-> new_frm,
                           frame_len |-> Len(new_frm), embedded |-> <<>>] >>, t)

\* Repo.delete(*labels) in the repo s
RepoDelete(s, labels) ==
    /\ now < MaxTime
    /\ LET paths == to_remove(reg[s], labels)
           del_revs == RegDeleteRevs(reg[s], labels, now)
       IN  /\ reg' = [reg EXCEPT ![s] = @ \cup Range(del_revs)]
           /\ now' = IF del_revs = <<>> THEN now ELSE now + 1
           /\ bchl' = [bchl EXCEPT ![s] = IF LabelB \in paths THEN {} ELSE @]
           /\ IF s = 1
              THEN lchl' = (IF LabelA \in paths THEN {} ELSE lchl)
                   /\ UNCHANGED rlchl
              ELSE rlchl' = (IF LabelA \in paths THEN {} ELSE rlchl)
                   /\ UNCHANGED lchl
           /\ op' = [name |-> "repo_delete", labels |-> Range(labels),
                     side |-> s,
                     listed |-> Range(labels) \cap DOMAIN search(reg[s])]
    /\ rret' = "none"
    /\ UNCHANGED <<files, rfiles, NotRepoDelete>>

NextRepoDelete ==
    \/ \E labels \in ABLists : CreateCollection(Local, 1, labels, FALSE)
    \/ RepoWrite(Local)
    \/ RepoWriteB(Local)
    \/ \E labels \in ABLists \cup {<<>>} : RepoPush(Local, labels)
    \/ \E labels \in ABLists : RepoDelete(Local, labels)

\* a local repo that creates, writes, pushes and deletes collections
SpecRepoDelete == Init /\ [][NextRepoDelete]_vars


(***************************************************************************)
(* Series.read (baltic/series.py) step by step, while another actor writes *)
(* to the series: the log of the changelog is listed when the loop over    *)
(* changelog.read() starts, the content of each listed revision is read in *)
(* its turn, then the segments are read.                                   *)
(***************************************************************************)
NotSnap == <<wvars, gcvars, pullvars, forkvars, civars, batchvars, threadvars,
             clctvars, mergevars, syncvars, repovars, storevars, delvars, errvars, limvars, bodyvars, sqvars, pkvars>>

\* the revisions the loop goes through, listed when the loop started
ListingAgain(listed, c) == walk(c)

Listing(listed, c) == listed

\* read(start, end) is called: the log is made
ReadBegin(start, end) ==
    /\ rd_pc \in {"idle", "done"}
    /\ rd_start' = start
    /\ rd_end' = end
    /\ rd_revs' = walk(chl)
    /\ rd_snap' = chl
    /\ rd_info' = <<>>
    /\ rd_frame' = <<>>
    /\ rd_done' = FALSE
    /\ rd_pc' = "collect"
    /\ UNCHANGED <<podvars, NotSnap>>

\* the content of the next revision is read
ReadCollect ==
    /\ rd_pc = "collect"
    /\ Len(rd_info) < Len(Listing(rd_revs, chl))
    /\ rd_info' = Append(rd_info, Listing(rd_revs, chl)[Len(rd_info) + 1].child)
    /\ UNCHANGED <<podvars, rd_start, rd_end, rd_frame, rd_done, rd_pc,
                   rd_revs, rd_snap, NotSnap>>

\* the loop is over: the matching segments are read and combined
ReadEnd ==
    /\ rd_pc = "collect"
    /\ Len(rd_info) >= Len(Listing(rd_revs, chl))
    /\ rd_frame' = ReadContents(rd_info, rd_start, rd_end)
    /\ rd_done' = TRUE
    /\ rd_pc' = "done"
    /\ UNCHANGED <<podvars, rd_start, rd_end, rd_revs, rd_info, rd_snap,
                   NotSnap>>

\* Series.write(sgm) by another actor: the read in progress is left alone
OtherWrite(start, stop) ==
    /\ start <= stop
    /\ now < MaxTime
    /\ Len(chl) < MaxRevs
    /\ LET sgm == SgmOf(start, stop, now)
           info == [start |-> serialize(<<sgm[1][1]>>),
                    end |-> serialize(<<sgm[1][Len(sgm[1])]>>),
                    size |-> Len(sgm[1]),
                    timestamp |-> now,
                    columns |-> sgm]
       IN  /\ files' = PodWrite(PodWrite(files, <<sgm[1], Plain>>), <<sgm[2], Plain>>)
           /\ chl' = ChlWrite(chl, Rev(LeafParent(chl), info))
    /\ now' = now + 1
    /\ UNCHANGED <<readvars, snapvars, NotSnap>>

NextSnap ==
    \/ \E start \in ReadBounds, end \in ReadBounds : ReadBegin(start, end)
    \/ ReadCollect
    \/ ReadEnd
    \/ \E start \in Idx, stop \in Idx : OtherWrite(start, stop)

\* a reader and a writer of one series
SpecSnap == Init /\ [][NextSnap]_vars


(***************************************************************************)
(* Commit.update (lakota/commit.py) called with any start and stop, the    *)
(* ones with start > stop included.  A call is made on the commit the      *)
(* caller holds, ci_res; when the call raises the caller holds it still.   *)
(***************************************************************************)
NotErr == <<podvars, wvars, gcvars, pullvars, forkvars, readvars, batchvars,
            threadvars, clctvars, mergevars, syncvars, repovars, storevars,
            delvars, snapvars, limvars, bodyvars, sqvars, pkvars>>

\* Commit.update, line 109, with the test left out
InvalidRangeNever(start, stop) == FALSE

\* Commit.update, line 109: not start <= stop
InvalidRange(start, stop) == ~(start <= stop)

\* one call of update with any range
UpdateCall(label, start, stop, closed) ==
    /\ ci_count < MaxUpdates
    /\ LET r == [label |-> label, start |-> start, stop |-> stop,
                 digest |-> ci_count + 1, length |-> stop - start + 1,
                 closed |-> closed]
       IN  /\ ci_args' = r
           /\ IF InvalidRange(start, stop)
              THEN ci_error' = "ValueError" /\ ci_res' = ci_res
              ELSE ci_error' = "none" /\ ci_res' = UpdateRow(ci_res, r)
    /\ ci_self' = ci_res
    /\ ci_count' = ci_count + 1
    /\ UNCHANGED NotErr

NextUpdateCall ==
    \/ \E label \in Labels, start \in Idx, stop \in Idx, closed \in ClosedArgs :
          UpdateCall(label, start, stop, closed)

\* calls of update, valid or not, one after the other
SpecUpdateCall == Init /\ [][NextUpdateCall]_vars


(***************************************************************************)
(* Changelog.pack and Changelog.extract (baltic/changelog.py).  The items  *)
(* of a revision are a list of strings; Payload(list, 1) stands for the    *)
(* array of the list, and for its sha1 key.  Commits are made while the    *)
(* revisions form a chain without a repeated key, where walk terminates.   *)
(***************************************************************************)
NotPack == <<now, files, wvars, gcvars, pullvars, forkvars, civars, readvars,
             batchvars, threadvars, mergevars, syncvars, repovars, storevars,
             delvars, snapvars, errvars, limvars, bodyvars, sqvars, pkvars>>

\* bound on the number of revision files of a packed changelog
MaxPacked == 3

\* bound on the number of items a changelog holds
MaxItems == 4

\* the lists of items given to commit
PackItems == {<<>>, <<"a">>, <<"b">>, <<"c">>, <<"a", "b">>, <<"b", "a">>}

\* Changelog.extract(revisions): the items of each revision, one after the other
RECURSIVE extract(_)
extract(revisions) ==
    IF revisions = <<>> THEN <<>>
    ELSE Head(revisions).child.columns \o extract(Tail(revisions))

\* Changelog.commit(items)
PackCommit(items) ==
    /\ Len(chl) < MaxPacked
    /\ Len(extract(walk(chl))) + Len(items) <= MaxItems
    /\ Payload(items, 1) \notin {r.child : r \in Range(chl)}
    /\ chl' = ChlWrite(chl, Rev(LeafParent(chl), Payload(items, 1)))
    /\ op' = [name |-> "commit", labels |-> {}]
    /\ UNCHANGED NotPack

\* Changelog.pack, lines 126-127: self.pod.rm(rev) for each revision
PackClean(c, revisions) == SelectSeq(c, LAMBDA r : r \notin Range(revisions))

\* Changelog.pack: the changelog pod after the call
pack(c) ==
    LET revisions == walk(c)
    IN  IF Len(revisions) = 1 THEN c
        ELSE PackClean(ChlWrite(c, Rev(phi, Payload(extract(revisions), 1))),
                       revisions)

\* Changelog.pack()
Pack ==
    /\ chl' = pack(chl)
    /\ op' = [name |-> "pack", labels |-> {}]
    /\ UNCHANGED NotPack

NextPack ==
    \/ \E items \in PackItems : PackCommit(items)
    \/ Pack

\* commits and packs of one changelog
SpecPack == Init /\ [][NextPack]_vars


(***************************************************************************)
(* Changelog.commit called again and again on one changelog pod            *)
(* (baltic/changelog.py), with items that may be those of an earlier       *)
(* commit.  A call of commit returns when its walk for the leaf ends.      *)
(***************************************************************************)
\* Changelog.walk followed one level deeper than there are files: when a
\* file is met again below itself the traversal goes on and this walk is
\* longer than walk
WalkDeeper(c) == WalkFrom(c, phi, Len(c) + 1)

\* Changelog.commit(items), leaf() having returned
RepeatCommit(items) ==
    /\ Len(chl) < MaxPacked
    /\ WalkDeeper(chl) = walk(chl)
    /\ chl' = ChlWrite(chl, Rev(LeafParent(chl), Payload(items, 1)))
    /\ op' = [name |-> "commit", labels |-> {}]
    /\ UNCHANGED NotPack

NextWalk ==
    \/ \E items \in PackItems : RepeatCommit(items)

\* commits on one changelog, any items
SpecWalk == Init /\ [][NextWalk]_vars


(***************************************************************************)
(* Series.read(start, end, limit) (baltic/series.py) on one series whose   *)
(* writes cover ranges of the index values 1..MaxLimIdx.                   *)
(***************************************************************************)
NotLimit == <<wvars, gcvars, pullvars, forkvars, civars, batchvars, threadvars,
              clctvars, mergevars, syncvars, repovars, storevars, delvars,
              snapvars, errvars, bodyvars, sqvars, pkvars>>

\* the index values of the series read with a limit
MaxLimIdx == 3
LimIdx == 1..MaxLimIdx
LimBounds == {<<>>} \cup {<<i>> : i \in LimIdx}

\* the limits given to read
MaxLimit == 2
Limits == 1..MaxLimit

\* Series._read: the first info that matches gives its slice, the infos
\* after it give what is left of it and, while the limit lasts, what is
\* right of it; the limit is lowered by the length of the segment read from
\* the pod
RECURSIVE _read(_, _, _, _)
_read(series_info, start, end, limit) ==
    IF series_info = <<>> THEN EmptySgm
    ELSE LET info == Head(series_info)
             match == intersect(info, start, end)
         IN  IF match = None
             THEN _read(Tail(series_info), start, end, limit)
             ELSE LET sgm == from_pod(info.columns)
                      mstart == match[1]
                      mend == match[2]
                      left_sgm == IF IdxLt(start, mstart)
                                  THEN _read(Tail(series_info), start, mstart,
                                             limit)
                                  ELSE EmptySgm
                      segments == SgmConcat(left_sgm,
                                            SgmSlice(sgm, mstart, mend))
                  IN  IF ~IdxLt(mend, end) THEN segments
                      ELSE IF limit = NoLimit
                      THEN SgmConcat(segments,
                                     _read(Tail(series_info), mend, end, NoLimit))
                      ELSE IF limit - Len(sgm[1]) < 1 THEN segments
                      ELSE SgmConcat(segments,
                                     _read(Tail(series_info), mend, end,
                                           limit - Len(sgm[1])))

\* Series.read(start, end, limit) on the changelog c
ReadLimited(c, start, end, limit) ==
    LET contents == ChangelogRead(c)
        infos == [i \in 1..Len(contents) |->
                    [contents[i] EXCEPT
                        !.start = deserialize(@), !.end = deserialize(@)]]
        series_info == SelectSeq(infos,
                           LAMBDA info : intersect(info, deserialize(start),
                                                   deserialize(end)) # None)
    IN  _read(reversed(series_info), deserialize(start), deserialize(end),
              limit)

\* Series.write of the rows start..stop
WriteWide(start, stop) ==
    /\ start <= stop
    /\ Write(SgmOf(start, stop, now))

\* Series.read(start, end, limit)
ReadLimit(start, end, limit) ==
    /\ rd_start' = start
    /\ rd_end' = end
    /\ rd_limit' = limit
    /\ rd_frame' = ReadLimited(chl, start, end, limit)
    /\ rd_done' = TRUE
    /\ UNCHANGED <<podvars, NotLimit>>

NextLimit ==
    \/ \E start \in LimIdx, stop \in LimIdx : WriteWide(start, stop)
    \/ \E start \in LimBounds, end \in LimBounds, limit \in Limits \cup {NoLimit} :
          ReadLimit(start, end, limit)

\* writes and limited reads of one series
SpecLimit == Init /\ [][NextLimit]_vars


(***************************************************************************)
(* Collection.multi as a context manager (lakota/collection.py 251-257):   *)
(* the generator is run up to its yield when the with block is entered,    *)
(* resumed after the yield when the body ends normally, and resumed by a   *)
(* throw of the exception at the yield when the body raises.  The yield is *)
(* not inside a try, so the thrown exception ends the generator there.     *)
(***************************************************************************)
NotMulti == <<files, chl, wvars, gcvars, pullvars, forkvars, civars,
              readvars, bpc, ci_info, root, revs, calls, clctvars, mergevars,
              syncvars, repovars, storevars, delvars, snapvars, errvars,
              limvars, sqvars, pkvars>>

\* __enter__: b = Batch(self, root); self.batch = b; yield b
MultiEnter(t) ==
    /\ tbody[t] = "out"
    /\ flushes < MaxFlushes
    /\ tbatch' = [tbatch EXCEPT ![t] = "open"]
    /\ tinfo' = [tinfo EXCEPT ![t] = <<>>]
    /\ tbody' = [tbody EXCEPT ![t] = "in"]
    /\ flushes' = flushes + 1
    /\ UNCHANGED <<now, lchl, tres, NotMulti>>

\* __exit__ without exception: b.flush(); self.batch = None
MultiExit(t) ==
    /\ tbody[t] = "in"
    /\ Len(tinfo[t]) = 0 \/ now < MaxTime
    /\ lchl' = lchl \cup Range(FlushRevs(FALSE, lchl, tinfo[t], now))
    /\ now' = IF Len(tinfo[t]) = 0 THEN now ELSE now + 1
    /\ tbatch' = [tbatch EXCEPT ![t] = "None"]
    /\ tbody' = [tbody EXCEPT ![t] = "out"]
    /\ UNCHANGED <<tinfo, tres, flushes, NotMulti>>

\* __exit__ with an exception of the body: the exception is thrown into the
\* generator at the yield and leaves it; the two lines after the yield are
\* not run
MultiRaise(t) ==
    /\ tbody[t] = "in"
    /\ tbody' = [tbody EXCEPT ![t] = "out"]
    /\ UNCHANGED <<now, lchl, tbatch, tinfo, tres, flushes, NotMulti>>

NextMulti ==
    \/ \E t \in Threads : MultiEnter(t)
    \/ \E t \in Threads, w \in BatchWrites : ThreadWrite(t, w)
    \/ \E t \in Threads : MultiExit(t)
    \/ \E t \in Threads : MultiRaise(t)

SpecMulti == Init /\ [][NextMulti]_vars


(***************************************************************************)
(* Collection.squash(pack=True, trim=True) step by step, with the writes   *)
(* of another actor between its steps (lakota/collection.py 192-241):      *)
(* squash lists the revisions, writes every series again in a batch, and   *)
(* removes the revisions it listed.                                        *)
(***************************************************************************)
NotRace == <<chl, wvars, gcvars, pullvars, forkvars, civars, readvars,
             bpc, ci_info, root, revs, calls, flushes, threadvars, mergevars,
             syncvars, repovars, storevars, delvars, snapvars, errvars,
             limvars, bodyvars, pkvars>>

\* squash, lines 209-214: revs = self.changelog.log()
SquashList ==
    /\ sqpc = "idle"
    /\ sqpc' = "listed"
    /\ sq_revs' = Log(lchl)
    /\ sq_before' = lchl
    /\ op' = [name |-> "list", labels |-> {}]
    /\ UNCHANGED <<files, lchl, now, sq_batch, NotRace>>

\* squash, lines 222-230: the series are read and written again in the
\* batch, which is flushed at the end of the with block
SquashFlush ==
    /\ sqpc = "listed"
    /\ now < MaxTime
    /\ LET batch_revs == SquashRevs(lchl, now)
       IN  /\ files' = files \cup
                  {<<u.all_dig, Plain>> : u \in Range(SquashInfos(lchl, ls(lchl), 1))}
           /\ lchl' = lchl \cup Range(batch_revs)
           /\ sq_batch' = batch_revs
           /\ now' = IF batch_revs = <<>> THEN now ELSE now + 1
    /\ sqpc' = "flushed"
    /\ op' = [name |-> "flush", labels |-> {}]
    /\ UNCHANGED <<sq_revs, sq_before, NotRace>>

\* squash, lines 232-236: the revisions to remove
ToRemove(revisions, batch_revs) ==
    IF batch_revs = <<>>
    THEN Range(SubSeq(revisions, 1, Len(revisions) - 1))
    ELSE Range(revisions)

\* squash, lines 237-240: rm_many(to_remove) and refresh
SquashRemove ==
    /\ sqpc = "flushed"
    /\ lchl' = lchl \ ToRemove(sq_revs, sq_batch)
    /\ sqpc' = "idle"
    /\ op' = [name |-> "squash", labels |-> {}]
    /\ UNCHANGED <<files, now, sq_revs, sq_before, sq_batch, NotRace>>

\* a write of another actor, at any moment
RaceWrite(w) ==
    /\ FrameWrite(w)
    /\ UNCHANGED sqvars

NextRace ==
    \/ \E w \in ClctWrites : RaceWrite(w)
    \/ SquashList
    \/ SquashFlush
    \/ SquashRemove

SpecRace == Init /\ [][NextRace]_vars


(***************************************************************************)
(* Changelog.pack step by step, with the commits of another actor between  *)
(* its steps (baltic/changelog.py 115-127): pack lists the revisions,      *)
(* commits their items as one revision below phi, and removes the listed   *)
(* revisions one file at a time.                                           *)
(***************************************************************************)
NotPackSteps == <<now, files, wvars, gcvars, pullvars, forkvars, civars,
                  readvars, batchvars, threadvars, mergevars, syncvars,
                  repovars, storevars, delvars, snapvars, errvars, limvars,
                  bodyvars, sqvars>>

\* pack, lines 119-121: revisions = list(self.walk()); the call returns
\* when there is one revision
PackList ==
    /\ pkpc = "idle"
    /\ pkpc' = IF Len(walk(chl)) = 1 THEN "idle" ELSE "listed"
    /\ pk_revs' = walk(chl)
    /\ pk_files' = Range(chl)
    /\ pk_todo' = <<>>
    /\ op' = [name |-> "list", labels |-> {}]
    /\ UNCHANGED <<chl, NotPackSteps>>

\* pack, lines 122-123: the items of the listed revisions are committed
\* below phi
PackWrite ==
    /\ pkpc = "listed"
    /\ chl' = ChlWrite(chl, Rev(phi, Payload(extract(pk_revs), 1)))
    /\ pk_todo' = pk_revs
    /\ pkpc' = IF pk_revs = <<>> THEN "idle" ELSE "clean"
    /\ op' = [name |-> "write", labels |-> {}]
    /\ UNCHANGED <<pk_revs, pk_files, NotPackSteps>>

\* pack, lines 126-127: one turn of the loop, self.pod.rm(rev)
PackRm ==
    /\ pkpc = "clean"
    /\ chl' = PackClean(chl, <<Head(pk_todo)>>)
    /\ pk_todo' = Tail(pk_todo)
    /\ pkpc' = IF Tail(pk_todo) = <<>> THEN "idle" ELSE "clean"
    /\ op' = [name |-> "rm", labels |-> {}]
    /\ UNCHANGED <<pk_revs, pk_files, NotPackSteps>>

NextPackSteps ==
    \/ \E items \in PackItems : PackCommit(items)
    \/ PackList
    \/ PackWrite
    \/ PackRm

SpecPackSteps == Init /\ [][NextPackSteps]_vars

FilesOf(fs, d) == {f \in fs : f[1] = d}

\* C1: a gc pass never makes the last file of an active digest disappear:
\* while the pass sweeps, every file that leaves the pod and whose base
\* digest is in the active set of the pass is still there under another
\* name (rm is applied to inactive digests only).
C1_GcKeepsActive ==
    [][gpc = "sweep" =>
          \A f \in files \ files' :
              f[1] \in active_digests => FilesOf(files', f[1]) # {}]_vars

\* C1 witness: the pass met an expired soft-deleted file of an active
\* digest and the blob is in the pod at its plain path.
C1_Witness ==
    /\ gpc = "sweep"
    /\ \E f \in all_dig \ inactive :
          /\ f[2] # Plain
          /\ ~TooRecent(f[2], deadline)
          /\ f[1] \in active_digests
          /\ f \notin files
          /\ <<f[1], Plain>> \in files

\* C2: when a pass ends, every plain file it listed whose digest it found
\* unreferenced is in the pod under the suffix of the pass; every suffixed
\* file it listed that is not newer than the deadline and unreferenced is gone;
\* and of an unreferenced digest whose listed files were all suffixed and
\* not newer than the deadline no file is left except a plain one written
\* since (the file count is back to what it was before the blob).
C2_SoftThenHard ==
    [][(gpc = "sweep" /\ gpc' = "idle") =>
          /\ \A f \in all_dig :
                (f[2] = Plain /\ f[1] \notin active_digests)
                    => <<f[1], current_ts_ext>> \in files'
          /\ \A f \in all_dig :
                (f[2] # Plain /\ f[2] <= deadline /\ f[1] \notin active_digests)
                    => f \notin files'
          /\ \A d \in Digests \ active_digests :
                (\A f \in FilesOf(all_dig, d) : f[2] # Plain /\ f[2] <= deadline)
                    => FilesOf(files', d) \subseteq {<<d, Plain>>}]_vars

\* C2 witness: the pass has swept everything, it listed a file soft-deleted
\* the timeout ago or earlier whose digest is unreferenced, and no file of
\* that digest is left in the pod.
C2_Witness ==
    /\ gpc = "sweep"
    /\ inactive = {}
    /\ \E f \in all_dig :
          /\ f[2] # Plain
          /\ f[2] <= deadline
          /\ f[1] \notin active_digests
          /\ FilesOf(files, f[1]) = {}

\* C4: blobs first, metadata after: with writers and pulls interleaved (and
\* no gc pass), every revision file in the local changelog has the blob of
\* each of its column digests in the local pod.
C4_BlobsBeforeRevision ==
    \A r \in Range(chl) :
        \A d \in Range(r.child.columns) : <<d, Plain>> \in files

\* C4 witness: a pull is copying the revisions, one it had to copy is in,
\* and a writer that saved all its columns is about to commit.
C4_Witness ==
    /\ ppc = "revs"
    /\ \E r \in Range(chl) : r \in Range(rchl) /\ r \notin local_revs
                               /\ Cardinality(Range(r.child.columns)) > 1
    /\ \E w \in Writers : wpc[w] = "write" /\ Len(winfo[w].columns) = NumCols

\* C5 as claimed: when two actors have committed different items from the
\* same parent and both calls have returned, the file of each is in the
\* changelog pod and log() lists the child of each under that parent.
C5_BothListed ==
    \A a \in Actors, b \in Actors :
        (/\ a # b
         /\ apc[a] = "done" /\ apc[b] = "done"
         /\ aparent[a] = aparent[b]
         /\ aitems[a] # aitems[b])
        => \A x \in {a, b} :
              /\ aret[x] \in Range(chl)
              /\ aparent[x] \in DOMAIN log(chl)
              /\ sha1(aitems[x]) \in Range(log(chl)[aparent[x]])

\* the row R covers the commit c: (label, start) <= the first row's and
\* (label, stop) >= the last row's
Covers(c, r) ==
    /\ TupleLe(<<r.label, r.start>>, <<c[1].label, c[1].start>>)
    /\ TupleLe(<<c[Len(c)].label, c[Len(c)].stop>>, <<r.label, r.stop>>)

\* C7: update called on an empty commit, or with a row that covers the
\* commit from its first row to its last, returns the commit of that one
\* row: no row of the previous commit remains.
C7_CoveringUpdate ==
    (ci_args # NoRow /\ (Len(ci_self) = 0 \/ Covers(ci_self, ci_args)))
        => ci_res = <<ci_args>>

\* C7 witness: update was called on a commit of several rows with a row
\* that covers them all and whose closed tag is not the default.
C7_Witness ==
    /\ ci_args # NoRow
    /\ Len(ci_self) >= 2
    /\ Covers(ci_self, ci_args)
    /\ ci_args.closed = "left"
    /\ ci_res = <<ci_args>>

\* C8 as claimed: update is idempotent, the same call made again on the
\* commit returned gives the same rows in the same order.
C8_Idempotent ==
    ci_args # NoRow => UpdateRow(ci_res, ci_args) = ci_res

\* the rows are in ascending order of (label, start)
Sorted(c) ==
    \A i \in 1..Len(c), j \in 1..Len(c) :
        i < j => TupleLe(<<c[i].label, c[i].start>>, <<c[j].label, c[j].start>>)

\* two rows of one label share at most a bound
NoOverlap(c) ==
    \A i \in 1..Len(c), j \in 1..Len(c) :
        (i < j /\ c[i].label = c[j].label) => c[i].stop <= c[j].start

\* C9 as claimed: after any calls of update from the empty commit the rows
\* are sorted by (label, start) and no two rows of one label overlap.
C9_SortedNoOverlap == Sorted(ci_res) /\ NoOverlap(ci_res)

\* the writes that cover the index value i, by their position in the
\* order they were made
Covering(infos, i) ==
    {k \in 1..Len(infos) : infos[k].start[1] <= i /\ i <= infos[k].end[1]}

Latest(S) == CHOOSE k \in S : \A j \in S : j <= k

\* for each index value from i on that some write covers, in ascending
\* order, one row with the value the latest write covering it gave it
RECURSIVE NewerWins(_, _)
NewerWins(infos, i) ==
    IF i > MaxIdx THEN EmptySgm
    ELSE LET rest == NewerWins(infos, i + 1)
             cov == Covering(infos, i)
         IN  IF cov = {} THEN rest
             ELSE LET w == infos[Latest(cov)]
                  IN  << <<i>> \o rest[1],
                         <<w.columns[2][i - w.start[1] + 1]>> \o rest[2] >>

\* C6 as claimed: a read with no bounds returns, for every index value that
\* a write covers, exactly one row, with the values of the latest write
\* whose range holds it, in ascending order of the index.
C6_NewerWins ==
    (rd_done /\ rd_start = <<>> /\ rd_end = <<>>)
        => rd_frame = NewerWins(ChangelogRead(chl), 1)

\* the parent the claim gives to the revision of a flush
ClaimedParent ==
    IF root \/ lchl = {} THEN zero_hash ELSE leaf(lchl).child

\* C10: a flush with at least one buffered update calls changelog.commit
\* once, with one parent (the child of the leaf, or the zero hash when there
\* is no leaf or the batch is a root batch), and writes one revision; a
\* flush with nothing buffered calls it not at all and writes no revision.
C10_OneCommitPerFlush ==
    [][(bpc = "open" /\ bpc' = "none") =>
          IF Len(ci_info) = 0
          THEN calls' = calls /\ lchl' = lchl
          ELSE /\ Len(calls') = Len(calls) + 1
               /\ calls'[Len(calls')] = <<ClaimedParent>>
               /\ Cardinality(lchl' \ lchl) = 1
               /\ \A r \in lchl' \ lchl : r.parent = ClaimedParent]_vars

\* C10 witness: after an earlier flush, a batch that was not a root batch
\* and buffered updates of two series has been flushed on the leaf.
C10_Witness ==
    /\ bpc = "none"
    /\ ~root
    /\ Len(ci_info) >= 2
    /\ \E i, j \in 1..Len(ci_info) : ci_info[i].label # ci_info[j].label
    /\ Len(calls) >= 2
    /\ Len(revs) = 1
    /\ calls[Len(calls)] # <<zero_hash>>

\* C3 as claimed: every column digest referenced by a revision file of the
\* changelog has its blob at the plain hashed path.
C3_BlobsReadable ==
    \A d \in UNION {Range(r.child.columns) : r \in Range(chl)} :
        <<d, Plain>> \in files

\* C11 as claimed: a batch is bound to the thread that opened it: a thread
\* that writes while another thread is inside multi() and it is not itself
\* sees no batch and its write is committed on its own, and the batch of a
\* thread buffers only the updates of that thread.
C11_BatchPerThread ==
    /\ \A t \in Threads :
          (tres[t].others /\ ~tres[t].own) => tres[t].outcome = "committed"
    /\ \A t \in Threads :
          \A i \in 1..Len(tinfo[t]) : tinfo[t][i].all_dig \div 100 = t

\* C12: Collection.delete(labels) on a changelog that has a leaf appends
\* one revision, whose parent is the child of that leaf and whose commit is
\* the commit of the leaf minus every row of those labels, the other rows
\* unchanged; it changes no blob and no revision that was there; on an
\* empty changelog it does nothing.
C12_DeleteFrame ==
    [][op'.name = "delete" =>
          /\ files' = files
          /\ lchl \subseteq lchl'
          /\ IF lchl = {} THEN lchl' = lchl
             ELSE /\ Cardinality(lchl' \ lchl) = 1
                  /\ \A r \in lchl' \ lchl :
                        /\ r.parent = leaf(lchl).child
                        /\ LET old == decode(leaf(lchl).payload)
                               new == decode(r.payload)
                           IN  /\ \A i \in 1..Len(new) :
                                     new[i].label \notin op'.labels
                               /\ new = SelectSeq(old, LAMBDA row :
                                                  row.label \notin op'.labels)]_vars

\* C12 witness: a delete of one label was made on a leaf that had rows of
\* two labels, and the new leaf has the rows of the other label only.
C12_Witness ==
    /\ op.name = "delete"
    /\ Cardinality(op.labels) = 1
    /\ files # {}
    /\ Cardinality(lchl) >= 3
    /\ decode(leaf(lchl).payload) # <<>>
    /\ \A i \in 1..Len(decode(leaf(lchl).payload)) :
          decode(leaf(lchl).payload)[i].label \notin op.labels

\* the number of times the row is in the commit
Count(ci, row) == Cardinality({i \in 1..Len(ci) : ci[i] = row})

\* C14: merge returns [] and writes no revision when the changelog is
\* empty or when all heads have one child digest.
C14_NothingToMerge ==
    [][op'.name = "merge" =>
          ((lchl = {}
            \/ \A h1 \in Range(Heads(lchl)), h2 \in Range(Heads(lchl)) :
                  h1.child = h2.child)
           => (mrevs' = <<>> /\ lchl' = lchl))]_vars

\* C14 witness: merge returned [] on a changelog where two revision files
\* of different parents point to one child.
C14_Witness ==
    /\ op.name = "merge"
    /\ mrevs = <<>>
    /\ Len(Heads(lchl)) >= 2
    /\ \E h1 \in Range(Heads(lchl)), h2 \in Range(Heads(lchl)) :
          h1.parent # h2.parent /\ h1.child = h2.child

\* the merge has found heads of different children, and a row is in two of them
SharedRows(c) ==
    {row \in UNION {Range(decode(h.payload)) : h \in Range(Heads(c))} :
        \E i \in 1..Len(Heads(c)), j \in 1..Len(Heads(c)) :
           /\ i # j
           /\ row \in Range(decode(Heads(c)[i].payload))
           /\ row \in Range(decode(Heads(c)[j].payload))}

\* C13: a row that two heads hold is once in the commit merge produces.
C13_SharedRowOnce ==
    [][(op'.name = "merge" /\ mrevs' # <<>>) =>
          \A row \in SharedRows(lchl) :
             Count(decode(mrevs'[1].payload), row) = 1]_vars

\* C15: after squash(pack=True, trim=True) on a collection that was written
\* to, every series reads the same frame as before, and log() has exactly
\* one revision, whose parent is the zero hash.
C15_SquashKeepsFrames ==
    [][(op'.name = "squash" /\ lchl # {}) =>
          /\ \A label \in Labels : ReadSeries(lchl', label) = ReadSeries(lchl, label)
          /\ Len(Log(lchl')) = 1
          /\ Log(lchl')[1].parent = zero_hash]_vars

\* C16: when a pull ends on a collection that holds no revision of its own,
\* the local changelog holds every remote revision, the local walk (and so
\* the leaf) is the remote one, and the blobs every read needs are local; a
\* pull made when all of this is already local copies nothing.
C16_PullCopiesAll ==
    [][/\ (ppc = "revs" /\ ppc' = "idle" /\ Range(chl) \subseteq Range(rchl)) =>
             /\ Range(rchl) \subseteq Range(chl')
             /\ walk(chl') = walk(rchl)
             /\ LeafParent(chl') = LeafParent(rchl)
             /\ BlobsOf(rchl) \subseteq files'
       /\ ((pool' # pool \/ pull_pos' # pull_pos \/ ppc' # ppc)
             /\ Range(rchl) \subseteq Range(chl)
             /\ BlobsOf(rchl) \subseteq files) =>
             (chl' = chl /\ files' = files)]_vars

\* C16 witness: no local write was made, a first pull has copied the two
\* remote revisions and a second pull has gone through them.
C16_Witness ==
    /\ now = 1
    /\ \A w \in LocalWriters : wpc[w] = "idle"
    /\ Len(rchl) = 2
    /\ ppc = "revs"
    /\ pull_pos = Len(rchl) + 1
    /\ local_revs = Range(rchl)
    /\ Range(chl) = Range(rchl)
    /\ BlobsOf(rchl) \subseteq files

\* C17: after delete(L) on one side of two synchronised collections and a
\* push to (or a pull from) the other side, with or without a squash on the
\* receiving side, both list the same labels and L is not among them.
C17_DeletePropagates ==
    sync.stage \in {"synced", "squashed"} =>
        (ls(lchl) = ls(rlchl) /\ sync.labels \cap ls(lchl) = {})

\* the label is in the registries of both repos, with different schemas
SchemaClash(s) ==
    \E label \in DOMAIN search(reg[s]) \cap DOMAIN search(reg[Other(s)]) :
       search(reg[s])[label].schema # search(reg[Other(s)])[label].schema

\* C18: Repo.pull raises ValueError when a collection label is on both
\* sides with different schemas, and then nothing of the remote collection
\* is copied into the local one.
C18_PullSchemaClash ==
    [][\A s \in Sides :
          (op'.name = "repo_pull" /\ op'.side = s /\ SchemaClash(s)) =>
             /\ rret' = "ValueError"
             /\ s = 1 => (lchl' = lchl /\ files' = files)
             /\ s = 2 => (rlchl' = rlchl /\ rfiles' = rfiles)]_vars

\* C19: create_collection raises ValueError when a given label is empty
\* once stripped, or is in the registry while raise_if_exists is true, and
\* then the registry is unchanged.
C19_CreateRaises ==
    [][\A s \in Sides :
          (/\ op'.name = "create" /\ op'.side = s
           /\ \E label \in op'.labels :
                 \/ strip(label) = LabelEmpty
                 \/ /\ op'.raise_if_exists
                    /\ label \in DOMAIN search(reg[s]))
          => (rret' = "ValueError" /\ reg'[s] = reg[s])]_vars

\* C20: a write to a key that holds bytes leaves the pods as they were,
\* whatever the bytes given; a commit of items on a parent they were already
\* committed on returns the name of the revision file that is there, adds no
\* file and changes no payload.
C20_WriteExistingNoOp ==
    [][(op'.name \in {"write", "commit"} /\ op'.existed) =>
          /\ store' = store
          /\ op'.name = "write" => wret' = "None"
          /\ op'.name = "commit" =>
                /\ wret' \in DOMAIN store[op'.pod]
                /\ wret'.child = sha1(op'.data[2])]_vars

C20_Witness ==
    /\ op.name = "commit"
    /\ op.existed
    /\ store[op.pod][op.key] = op.data

\* the positions of the changelog pod that hold the revision file r
FilesNamed(c, r) == {i \in 1..Len(c) : c[i] = r}

\* the number of times the child is listed under the parent by log
TimesListed(c, parent, child) ==
    IF parent \in DOMAIN log(c)
    THEN Cardinality({i \in 1..Len(log(c)[parent]) : log(c)[parent][i] = child})
    ELSE 0

\* C21: once two actors that committed the same items on the same parent
\* have both returned, the changelog pod holds two revision files for that
\* parent and child, and log lists the child once under the parent.
C21_TwoFilesOneChild ==
    \A a \in Actors, b \in Actors :
        (/\ a # b
         /\ apc[a] = "done" /\ apc[b] = "done"
         /\ aparent[a] = aparent[b]
         /\ aitems[a] = aitems[b])
        => /\ Cardinality(FilesNamed(chl, aret[a]) \cup FilesNamed(chl, aret[b])) = 2
           /\ TimesListed(chl, aparent[a], sha1(aitems[a])) = 1

\* the digests reached from the digests of seen along parent -> child
RECURSIVE ReachedFrom(_, _)
ReachedFrom(c, seen) ==
    LET more == seen \cup {r.child : r \in {q \in c : q.parent \in seen}}
    IN  IF more = seen THEN seen ELSE ReachedFrom(c, more)

\* the digests below the digest d, d itself when a path leads back to it
Below(c, d) == ReachedFrom(c, {r.child : r \in {q \in c : q.parent = d}})

\* C22: the revisions of the collection form a forest rooted at the zero
\* hash: no digest is below itself, every revision hangs on a digest reached
\* from the zero hash, and the heads are the revisions whose child is the
\* parent of no revision.
C22_Forest ==
    /\ \A r \in lchl : r.child \notin Below(lchl, r.child)
    /\ \A r \in lchl : r.parent \in ReachedFrom(lchl, {zero_hash})
    /\ Range(Heads(lchl)) = {r \in lchl : \A q \in lchl : q.parent # r.child}

\* C23: Repo.delete called on the local repo leaves the remote repo as it
\* was (registry, revisions and blobs); in the local repo the labels given
\* are no more in the registry, the changelog folder of each collection
\* that was listed is empty, and no blob file has left the pod.
C23_DeleteIsLocal ==
    [][op'.name = "repo_delete" =>
          /\ reg'[Other(Local)] = reg[Other(Local)]
          /\ rlchl' = rlchl
          /\ bchl'[Other(Local)] = bchl[Other(Local)]
          /\ rfiles' = rfiles
          /\ op'.labels \cap DOMAIN search(reg'[Local]) = {}
          /\ LabelA \in op'.listed => lchl' = {}
          /\ LabelB \in op'.listed => bchl'[Local] = {}
          /\ files \subseteq files']_vars

\* "b" was deleted in the local repo after a push: the remote repo holds
\* the registry line, the revisions and the blobs of "b"
C23_Witness ==
    /\ op.name = "repo_delete"
    /\ op.listed = {LabelB}
    /\ LabelB \in DOMAIN search(reg[Other(Local)])
    /\ bchl[Other(Local)] # {}
    /\ rfiles # {}
    /\ files # {}

\* C24: a commit that is encoded and then decoded has the rows it had: the
\* same label, start, stop, digest, length and closed tag, row for row.
C24_RoundTrip == decode(encode(ci_res)) = ci_res

\* C25: the frame a read returns is the frame of the revisions that the
\* changelog held when the read listed it, whatever was committed since.
C25_ReadSnapshot ==
    rd_pc = "done" => rd_frame = read(rd_snap, rd_start, rd_end)

\* a read has returned, and a revision committed while it was in progress
\* would have changed its frame
C25_Witness ==
    /\ rd_pc = "done"
    /\ rd_snap # <<>>
    /\ chl # rd_snap
    /\ read(chl, rd_start, rd_end) # rd_frame

\* C26: a call of update with start > stop raises ValueError, and the
\* caller is left with the commit the call was made on: no row of the call
\* is in it.
C26_InvalidRangeRaises ==
    (ci_args # NoRow /\ ci_args.start > ci_args.stop)
        => /\ ci_error = "ValueError"
           /\ ci_res = ci_self

\* update has raised on a commit that has rows
C26_Witness ==
    /\ ci_error = "ValueError"
    /\ ci_args.start > ci_args.stop
    /\ ci_self # <<>>

\* C27: pack on a changelog of two or more revisions leaves one revision
\* file, whose parent is phi, and extract gives the items it gave before, in
\* the same order; pack on a changelog of one revision leaves the pod as it
\* was.
C27_PackKeepsItems ==
    [][op'.name = "pack" =>
          /\ Len(walk(chl)) >= 2 =>
                /\ Len(chl') = 1
                /\ chl'[1].parent = phi
                /\ extract(walk(chl')) = extract(walk(chl))
          /\ Len(walk(chl)) = 1 => chl' = chl]_vars

\* C28: while a gc pass sweeps, a plain file that leaves its path is in the
\* pod under the suffix of the pass (renamed, not removed); a suffixed file
\* that leaves its path has a suffix that is not newer than the deadline
\* now - timeout of the pass, so that it was stamped at least the timeout
\* before the step that renames or removes it.
C28_GcWaits ==
    [][gpc = "sweep" =>
          \A f \in files \ files' :
              /\ f[2] = Plain => <<f[1], current_ts_ext>> \in files'
              /\ f[2] # Plain =>
                    /\ ~(f[2] > deadline)
                    /\ hextime(now - Timeout) >= f[2]]_vars

\* C28 witness: the pass has swept everything; it has left a suffixed file
\* newer than its deadline where it was and it has renamed a plain file.
C28_Witness ==
    /\ gpc = "sweep"
    /\ inactive = {}
    /\ \E f \in all_dig : f[2] # Plain /\ f[2] > deadline /\ f \in files
    /\ \E f \in all_dig :
          f[2] = Plain /\ f \notin files /\ <<f[1], current_ts_ext>> \in files

\* C29: when the sweep of a gc pass meets a suffixed file not newer than the
\* deadline whose base digest is in the active set of the pass, the file at
\* the plain path of the digest is in the pod after the step, and it stays
\* there until the pass ends, whether or not a plain file was there before.
C29_GcRestores ==
    [][gpc = "sweep" =>
          /\ \A f \in (files \cap inactive) \ inactive' :
                (f[2] # Plain /\ ~(f[2] > deadline) /\ f[1] \in active_digests)
                    => /\ <<f[1], Plain>> \in files'
                       /\ f \notin files'
          /\ \A f \in all_dig \ inactive :
                (f[2] # Plain /\ ~(f[2] > deadline) /\ f[1] \in active_digests
                 /\ <<f[1], Plain>> \in files)
                    => <<f[1], Plain>> \in files']_vars

\* C29 witness: the pass listed a suffixed file older than its deadline and
\* the plain file a writer re-created for the same digest, the digest is
\* active, the suffixed file has been swept and the plain file is there.
C29_Witness ==
    /\ gpc = "sweep"
    /\ \E f \in all_dig \ inactive :
          /\ f[2] # Plain
          /\ ~TooRecent(f[2], deadline)
          /\ f[1] \in active_digests
          /\ <<f[1], Plain>> \in all_dig
          /\ f \notin files
          /\ <<f[1], Plain>> \in files

\* the row e has its right part, and no more, under the range of the row r
CutOnRight(e, r) ==
    /\ e.label = r.label
    /\ e.start <= r.start
    /\ r.start <= e.stop
    /\ e.stop <= r.stop

\* the row e has its left part, and no more, under the range of the row r
CutOnLeft(e, r) ==
    /\ e.label = r.label
    /\ r.start <= e.start
    /\ e.start <= r.stop
    /\ r.stop <= e.stop

\* the closure table of a row cut on its right, on its left
RightCutTable(closed) ==
    CASE closed = "both" -> "left"
      [] closed = "right" -> "None"
      [] closed = "left" -> "left"
      [] closed = "None" -> "None"
LeftCutTable(closed) ==
    CASE closed = "both" -> "right"
      [] closed = "left" -> "None"
      [] closed = "right" -> "right"
      [] closed = "None" -> "None"

\* the rows of the commit c that carry the digest of the row e
RowsOf(c, e) == {c[i] : i \in {j \in 1..Len(c) : c[j].digest = e.digest}}

PositionsOf(c, e) == {j \in 1..Len(c) : c[j] = e}

\* the positions of the commit c whose row has the label and the digest of
\* the row e and covers the index point p
CoveringRows(c, e, p) ==
    {j \in 1..Len(c) : /\ c[j].label = e.label
                       /\ c[j].digest = e.digest
                       /\ c[j].start <= p
                       /\ p <= c[j].stop}

\* C31 as claimed: after update(L, start, stop), each row of the commit
\* whose label is not L is in the result unchanged and once, and each index
\* point of L that a row of the commit covers outside [start, stop] is
\* covered in the result by one row with the digest of that row.
C31_UpdateFrame ==
    ci_args # NoRow =>
        \A i \in 1..Len(ci_self) :
            LET e == ci_self[i]
            IN  IF e.label # ci_args.label
                THEN Cardinality(PositionsOf(ci_res, e)) = 1
                ELSE \A p \in Idx :
                        (/\ e.start <= p /\ p <= e.stop
                         /\ (p < ci_args.start \/ ci_args.stop < p))
                            => Cardinality(CoveringRows(ci_res, e, p)) = 1

\* the orders in which ls can return the files of the changelog pod c
Listings(c) == {s \in [1..Len(c) -> Range(c)] : Range(s) = Range(c)}

\* the position of the first file of the walk w whose child is d; 0 for the
\* zero hash
FirstAt(w, d) ==
    IF d = phi THEN 0
    ELSE LET at_d == {i \in 1..Len(w) : w[i].child = d}
         IN  IF at_d = {} THEN Len(w) + 1
             ELSE CHOOSE i \in at_d : \A j \in at_d : i <= j

\* C32 as claimed: walk lists each revision after its parent, and two
\* listings of the same set of revision files, in whatever order ls returns
\* the names, give the same walk and so the same leaf.
C32_WalkOrder ==
    /\ \A i \in 1..Len(walk(chl)) :
           FirstAt(walk(chl), walk(chl)[i].parent) < i
    /\ \A s \in Listings(chl) :
           /\ walk(s) = walk(chl)
           /\ LeafParent(s) = LeafParent(chl)

\* C33 as claimed: on every changelog that calls of commit produce, walk
\* ends (followed one level deeper it finds nothing more) and it yields
\* each revision file at most once.
C33_WalkEnds ==
    /\ WalkDeeper(chl) = walk(chl)
    /\ \A i \in 1..Len(walk(chl)), j \in 1..Len(walk(chl)) :
           walk(chl)[i] = walk(chl)[j] => i = j

\* the heads have at least two different child digests
TwoChildren(heads) ==
    Cardinality({heads[i].child : i \in 1..Len(heads)}) >= 2

\* C34: merge on heads of at least two child digests asks commit for one
\* revision for each head, all with one payload, the parent of each the
\* child of one head; the files written are these, one for each child
\* digest among the heads; afterwards all leaves have one child digest and
\* a merge made at once returns [] and would write nothing.
C34_MergePerHead ==
    [][(op'.name = "merge" /\ TwoChildren(Heads(lchl))) =>
          LET heads == Heads(lchl)
          IN  /\ Len(mrevs') = Len(heads)
              /\ lchl' \ lchl = Range(mrevs')
              /\ Cardinality(lchl' \ lchl)
                    = Cardinality({heads[i].child : i \in 1..Len(heads)})
              /\ \A i \in 1..Len(heads) :
                    /\ mrevs'[i].parent = heads[i].child
                    /\ mrevs'[i].payload = mrevs'[1].payload
              /\ \A h1 \in Range(Heads(lchl')), h2 \in Range(Heads(lchl')) :
                    h1.child = h2.child
              /\ MergeRevs(lchl', now') = <<>>]_vars

\* C34 witness: merge has written two revision files of one payload on two
\* heads of different children, every leaf now has the child of the merge,
\* and a merge made now returns [].
C34_Witness ==
    /\ op.name = "merge"
    /\ Len(mrevs) = 2
    /\ mrevs[1].parent # mrevs[2].parent
    /\ mrevs[1].payload = mrevs[2].payload
    /\ Range(mrevs) \subseteq lchl
    /\ \A h \in Range(Heads(lchl)) : h.child = mrevs[1].child
    /\ MergeRevs(lchl, now) = <<>>

\* the digests reached from the digests ds by going from child to parent
RECURSIVE UpFrom(_, _)
UpFrom(c, ds) ==
    LET more == ds \cup {x.parent : x \in {y \in c : y.child \in ds}}
    IN  IF more = ds THEN ds ELSE UpFrom(c, more)

\* the revisions above the head h: h and the revisions its parent chain
\* goes through
AncestorsOf(c, h) == {x \in c : x.child \in UpFrom(c, {h.child})}

\* the revisions that are above every head
CommonAncestors(c) ==
    {x \in c : \A h \in Range(Heads(c)) : x \in AncestorsOf(c, h)}

\* C35 as claimed: when merge finds heads of at least two child digests,
\* the revision whose rows it takes as ancestor rows is above every head
\* and no other revision above every head is below it; when no revision is
\* above every head, it takes the rows of no revision as ancestor rows
\* (the root commit is empty).
C35_MergeRoot ==
    TwoChildren(Heads(lchl)) =>
        LET found == MergeRoot(Log(lchl), Heads(lchl))
        IN  IF CommonAncestors(lchl) = {}
            THEN decode(found.payload) = <<>>
            ELSE /\ found \in CommonAncestors(lchl)
                 /\ \A y \in CommonAncestors(lchl) :
                       y.child # found.child =>
                           found \notin AncestorsOf(lchl, [child |-> y.parent])

\* the segment a is the first rows of the segment b
SgmPrefix(a, b) ==
    /\ Len(a[1]) <= Len(b[1])
    /\ a[1] = SubSeq(b[1], 1, Len(a[1]))
    /\ a[2] = SubSeq(b[2], 1, Len(a[1]))

\* C36 as claimed: a read with the limit L returns the first rows of what
\* the same read without limit returns, at least L of them, or all when
\* there are fewer than L.
C36_LimitPrefix ==
    (rd_done /\ rd_limit # NoLimit) =>
        LET full == ReadLimited(chl, rd_start, rd_end, NoLimit)
        IN  /\ SgmPrefix(rd_frame, full)
            /\ Len(rd_frame[1]) >= IF rd_limit < Len(full[1])
                                   THEN rd_limit ELSE Len(full[1])

\* a write made outside a batch on the leaf leaf_rev: the leaf commit is
\* loaded, updated and committed; the revision it leaves at the leaf
WriteAlone(leaf_rev, u) ==
    LET ci == IF leaf_rev # NoLeaf
              THEN update(decode(leaf_rev.payload), u.label, u.start, u.stop,
                          u.all_dig, u.frame_len, "both")
              ELSE one(u.label, u.start, u.stop, u.all_dig, u.frame_len, "both")
    IN  [NoLeaf EXCEPT !.payload = encode(ci), !.child = hash(encode(ci))]

\* the writes of the updates made one after the other outside a batch
RECURSIVE WritesAlone(_, _)
WritesAlone(leaf_rev, infos) ==
    IF infos = <<>> THEN leaf_rev
    ELSE WritesAlone(WriteAlone(leaf_rev, Head(infos)), Tail(infos))

\* C37: the flush of a batch that holds updates writes one revision whose
\* payload is the payload that the same updates, written one after the
\* other outside a batch on the leaf the flush starts from, leave at the
\* leaf.
C37_FlushAsWrites ==
    [][(bpc = "open" /\ bpc' = "none" /\ Len(ci_info) > 0) =>
          \A r \in lchl' \ lchl :
              r.payload = WritesAlone(FlushLeaf(root, lchl), ci_info).payload]_vars

\* C37 witness: a batch of two updates has been flushed on a leaf, and the
\* second update cut a row of the commit the first one gave.
C37_Witness ==
    /\ bpc = "none"
    /\ Len(ci_info) = 2
    /\ Len(revs) = 1
    /\ revs[1].parent # zero_hash
    /\ revs[1] \in lchl
    /\ \E i \in 1..Len(decode(revs[1].payload)) :
          decode(revs[1].payload)[i].closed # "both"

\* C38: a thread that has left the body of a with multi() block, normally
\* or by an exception, sees None as the batch of the collection; the normal
\* exit of a block that buffered updates writes one revision; and a write
\* made by a thread that is outside a block is not buffered.
C38_MultiResets ==
    [][/\ \A t \in Threads :
              (tbody[t] = "in" /\ tbody'[t] = "out") => tbatch'[t] = "None"
       /\ \A t \in Threads :
              (tbody[t] = "in" /\ tbatch'[t] = "None" /\ Len(tinfo[t]) > 0) =>
                  Cardinality(lchl' \ lchl) = 1
       /\ \A t \in Threads :
              (tbody[t] = "out" /\ tres'[t] # tres[t]) =>
                  tres'[t].outcome # "buffered"]_vars

\* the revisions committed by another actor since squash listed
Concurrent(c) == (c \ sq_before) \ Range(sq_batch)

\* the revision committed last among a set of revisions
LastWritten(ws) == CHOOSE w \in ws : \A o \in ws : o.time <= w.time

\* C39: when squash ends, every revision that another actor committed after
\* squash listed the revisions is in the changelog and is reached from the
\* zero hash, and each series reads the frame that the last of these
\* revisions holds for it.
C39_SquashKeepsWrite ==
    [][(sqpc = "flushed" /\ sqpc' = "idle" /\ Concurrent(lchl) # {}) =>
          /\ Concurrent(lchl) \subseteq lchl'
          /\ Concurrent(lchl) \subseteq Range(Log(lchl'))
          /\ \A label \in Labels :
                \A line \in Range(CommitFrame(
                        decode(LastWritten(Concurrent(lchl)).payload), label)) :
                    line \in Range(ReadSeries(lchl', label))]_vars

\* the items extract() yields
Extractable(c) == Range(extract(walk(c)))

\* the revisions another actor committed since pack listed: the files that
\* were not there at the listing, but for the file pack wrote
PackConcurrent(c) ==
    (Range(c) \ pk_files) \ {Rev(phi, Payload(extract(pk_revs), 1))}

\* C40: after each step made while pack runs, every item that extract()
\* yielded when pack listed the revisions is still yielded; and when pack
\* ends, the items of every revision that another actor committed since the
\* listing are yielded.
C40_PackKeepsCommit ==
    [][/\ pkpc # "idle" => Range(extract(pk_revs)) \subseteq Extractable(chl')
       /\ (pkpc # "idle" /\ pkpc' = "idle") =>
             \A r \in PackConcurrent(chl') :
                 Range(r.child.columns) \subseteq Extractable(chl')]_vars
====
